---- MODULE Spec2Model ----
(***************************************************************************)
(* The BitFutura employee management system (src/employee_management.py):  *)
(* the field validators, the Employee record, the CSV backed store with    *)
(* its load and save, and the menu loop with its handlers.                 *)
(*                                                                         *)
(* Text is modelled as a sequence of one-character strings, so stripping,  *)
(* splitting, joining, number parsing and number formatting are computed   *)
(* character by character, as the Python code computes them.               *)
(***************************************************************************)
EXTENDS Integers, Sequences, FiniteSets, TLC

VARIABLES
    fileExists,   \* os.path.exists(self._file_name)
    fileLines,    \* the backing file, one text line per element (no "\n")
    employees,    \* self._employees_list
    pc,           \* position of the session: start, menu, add_*, returned, exited, crashed
    pending,      \* the locals of add_employee accepted so far
    out,          \* what the last step did: its handler and its events
    faults,       \* write faults injected so far (bounded by MaxWriteFaults)
    updates       \* updates committed so far (bounded by MaxUpdates)

vars == <<fileExists, fileLines, employees, pc, pending, out, faults, updates>>

(***************************************************************************)
(* Bounds of the model.                                                    *)
(***************************************************************************)
MaxWriteFaults == 1
MaxUpdates == 1
MaxDataLines == 2

(***************************************************************************)
(* Characters and Python string helpers.                                   *)
(***************************************************************************)
UpperLetters == <<"A","B","C","D","E","F","G","H","I","J","K","L","M",
                  "N","O","P","Q","R","S","T","U","V","W","X","Y","Z">>
LowerLetters == <<"a","b","c","d","e","f","g","h","i","j","k","l","m",
                  "n","o","p","q","r","s","t","u","v","w","x","y","z">>
DigitChars == <<"0","1","2","3","4","5","6","7","8","9">>

Range(s) == {s[i] : i \in 1..Len(s)}
Letter == Range(UpperLetters) \cup Range(LowerLetters)
Digit == Range(DigitChars)
White == {" ", "\t"}

\* str.lower() on one character
LowerChar(c) ==
    IF c \in Range(UpperLetters)
    THEN LowerLetters[CHOOSE i \in 1..26 : UpperLetters[i] = c]
    ELSE c

\* str.lower()
Lower(s) == [i \in 1..Len(s) |-> LowerChar(s[i])]

\* str.strip(): drop leading and trailing whitespace
Strip(s) ==
    LET idx == {i \in 1..Len(s) : s[i] \notin White}
    IN  IF idx = {} THEN <<>>
        ELSE LET lo == CHOOSE i \in idx : \A j \in idx : i <= j
                 hi == CHOOSE i \in idx : \A j \in idx : i >= j
             IN  SubSeq(s, lo, hi)

\* str.isalnum(): non-empty and every character a letter or a digit
IsAlnum(s) == Len(s) > 0 /\ \A i \in 1..Len(s) : s[i] \in Letter \cup Digit

\* re.fullmatch(r'[...]+', s) for a character class
FullMatchClass(s, class) == Len(s) > 0 /\ \A i \in 1..Len(s) : s[i] \in class

RECURSIVE Join(_, _)
\* delimiter.join(values)
Join(values, delim) ==
    IF Len(values) = 0 THEN <<>>
    ELSE IF Len(values) = 1 THEN values[1]
    ELSE values[1] \o <<delim>> \o Join(Tail(values), delim)

RECURSIVE Split(_, _)
\* line.split(delimiter): one more field than there are delimiters
Split(line, delim) ==
    LET hits == {i \in 1..Len(line) : line[i] = delim}
    IN  IF hits = {} THEN <<line>>
        ELSE LET k == CHOOSE i \in hits : \A j \in hits : i <= j
             IN  <<SubSeq(line, 1, k - 1)>> \o Split(SubSeq(line, k + 1, Len(line)), delim)

(***************************************************************************)
(* Python float: float(text), str(float) and f"{float:.2f}".               *)
(* A float is [k, v]: k = "num" with v the value in thousandths, or        *)
(* k = "nan".  The texts of the model have at most three fractional        *)
(* digits, no exponent, no infinity, no underscore and no third digit 5    *)
(* (no rounding tie).                                                      *)
(***************************************************************************)
NaN == [k |-> "nan", v |-> 0]
Num(v) == [k |-> "num", v |-> v]

DigitVal(c) == (CHOOSE i \in 1..10 : DigitChars[i] = c) - 1

RECURSIVE DigitsToNat(_)
DigitsToNat(ds) ==
    IF Len(ds) = 0 THEN 0
    ELSE 10 * DigitsToNat(SubSeq(ds, 1, Len(ds) - 1)) + DigitVal(ds[Len(ds)])

RECURSIVE NatToDigits(_)
NatToDigits(n) ==
    IF n < 10 THEN <<DigitChars[n + 1]>>
    ELSE NatToDigits(n \div 10) \o <<DigitChars[(n % 10) + 1]>>

\* float(text) once the sign is read: body is the text after it, dot the
\* positions of "." in it, ip and fp the characters before and after the first
FloatOfParts(neg, body, dots, ip, fp) ==
    IF Lower(body) = <<"n", "a", "n">>
    THEN [ok |-> TRUE, val |-> NaN]
    ELSE IF /\ Cardinality(dots) <= 1
            /\ Len(ip) + Len(fp) > 0
            /\ Len(fp) <= 3
            /\ \A i \in 1..Len(ip) : ip[i] \in Digit
            /\ \A i \in 1..Len(fp) : fp[i] \in Digit
    THEN [ok |-> TRUE,
          val |-> Num((IF neg THEN -1 ELSE 1)
                        * (1000 * DigitsToNat(ip)
                            + DigitsToNat(fp \o SubSeq(<<"0", "0", "0">>, 1, 3 - Len(fp)))))]
    ELSE [ok |-> FALSE, val |-> NaN]

FloatOfDotted(neg, body, dots) ==
    IF dots = {} THEN FloatOfParts(neg, body, dots, body, <<>>)
    ELSE FloatOfParts(neg, body, dots,
                      SubSeq(body, 1, (CHOOSE i \in dots : TRUE) - 1),
                      SubSeq(body, (CHOOSE i \in dots : TRUE) + 1, Len(body)))

FloatOfBody(neg, body) == FloatOfDotted(neg, body, {i \in 1..Len(body) : body[i] = "."})

FloatOfStripped(t) ==
    IF Len(t) > 0 /\ t[1] \in {"+", "-"} THEN FloatOfBody(t[1] = "-", Tail(t))
    ELSE FloatOfBody(FALSE, t)

\* float(text): [ok |-> FALSE] models ValueError
ParseFloat(text) == FloatOfStripped(Strip(text))

\* float < 0: every comparison with nan is false
FloatNegative(f) == f.k = "num" /\ f.v < 0

\* str(float): the shortest repr, always with a fractional part
FloatStr(f) ==
    IF f.k = "nan" THEN <<"n", "a", "n">>
    ELSE LET mag == IF f.v < 0 THEN 0 - f.v ELSE f.v
             fr == mag % 1000
             frac == IF fr = 0 THEN <<"0">>
                     ELSE IF fr % 100 = 0 THEN NatToDigits(fr \div 100)
                     ELSE IF fr % 10 = 0
                          THEN <<DigitChars[(fr \div 100) + 1]>> \o NatToDigits((fr \div 10) % 10)
                     ELSE <<DigitChars[(fr \div 100) + 1], DigitChars[((fr \div 10) % 10) + 1],
                            DigitChars[(fr % 10) + 1]>>
         IN  (IF f.v < 0 THEN <<"-">> ELSE <<>>) \o NatToDigits(mag \div 1000)
                \o <<".">> \o frac

\* f"{float:.2f}": rounded to two decimals
Format2f(f) ==
    IF f.k = "nan" THEN <<"n", "a", "n">>
    ELSE LET mag == IF f.v < 0 THEN 0 - f.v ELSE f.v
             cents == (mag + 5) \div 10
         IN  (IF f.v < 0 THEN <<"-">> ELSE <<>>) \o NatToDigits(cents \div 100)
                \o <<".", DigitChars[((cents \div 10) % 10) + 1], DigitChars[(cents % 10) + 1]>>

(***************************************************************************)
(* The field validators: each returns the pair (ok, message).              *)
(***************************************************************************)
Pass == [ok |-> TRUE, msg |-> ""]
Fail(m) == [ok |-> FALSE, msg |-> m]

is_valid_employee_id_format(employee_id) ==
    IF Len(employee_id) = 0 THEN Fail("Employee ID cannot be empty.")
    ELSE IF ~IsAlnum(employee_id)
         THEN Fail("Employee ID must be alphanumeric (letters and numbers only).")
    ELSE Pass

is_valid_name_format(name) ==
    IF Len(name) = 0 \/ Len(Strip(name)) = 0 THEN Fail("Name cannot be empty.")
    ELSE IF ~FullMatchClass(Strip(name), Letter \cup {" "})
         THEN Fail("Name must contain only alphabetic characters and spaces.")
    ELSE Pass

is_valid_department_format(department) ==
    IF Len(department) = 0 \/ Len(Strip(department)) = 0
    THEN Fail("Department cannot be empty.")
    ELSE IF ~FullMatchClass(Strip(department), Letter \cup Digit \cup {" ", "-"})
         THEN Fail("Department can only contain letters, numbers, spaces, and hyphens.")
    ELSE Pass

is_valid_salary_format(salary_str) ==
    IF Len(salary_str) = 0 \/ Len(Strip(salary_str)) = 0 THEN Fail("Salary cannot be empty.")
    ELSE IF ~ParseFloat(salary_str).ok
         THEN Fail("Salary must be a valid number (e.g., 50000 or 65000.50).")
    ELSE IF FloatNegative(ParseFloat(salary_str).val) THEN Fail("Salary cannot be negative.")
    ELSE Pass

\* re.match(r'^\S+@\S+\.\S+$', s): no whitespace, an "@" after at least one
\* character, and later a "." with a character between them and one after it
MatchEmail(s) ==
    /\ \A i \in 1..Len(s) : s[i] \notin White
    /\ \E i \in 2..Len(s) : \E j \in (i + 2)..(Len(s) - 1) : s[i] = "@" /\ s[j] = "."

\* is_valid_email_format matching the text as given
is_valid_email_format_unstripped(email) ==
    IF Len(email) = 0 \/ Len(Strip(email)) = 0 THEN Fail("Email cannot be empty.")
    ELSE IF ~MatchEmail(email)
         THEN Fail("Invalid email format (must contain '@' and '.', no spaces allowed).")
    ELSE Pass

is_valid_email_format(email) ==
    IF Len(email) = 0 \/ Len(Strip(email)) = 0 THEN Fail("Email cannot be empty.")
    ELSE IF ~MatchEmail(Strip(email))
         THEN Fail("Invalid email format (must contain '@' and '.', no spaces allowed).")
    ELSE Pass

is_valid_contact_details_format(contact_details) ==
    IF Len(contact_details) = 0 \/ Len(Strip(contact_details)) = 0
    THEN Fail("Contact Details cannot be empty.")
    ELSE Pass

(***************************************************************************)
(* class Employee.                                                         *)
(***************************************************************************)
NoEmployee ==
    [employee_id |-> <<>>, name |-> <<>>, department |-> <<>>, salary |-> NaN,
     email |-> <<>>, contact_details |-> <<>>]

Raise(m) == [tag |-> "raise", msg |-> m, emp |-> NoEmployee]
Ok(e) == [tag |-> "ok", msg |-> "", emp |-> e]
None == [tag |-> "none", msg |-> "", emp |-> NoEmployee]

\* Employee.__init__ with the email validator called before the salary validator
EmployeeEmailBeforeSalary(employee_id, name, department, salary, email, contact_details) ==
    IF ~is_valid_employee_id_format(employee_id).ok
    THEN Raise(is_valid_employee_id_format(employee_id).msg)
    ELSE IF ~is_valid_name_format(name).ok THEN Raise(is_valid_name_format(name).msg)
    ELSE IF ~is_valid_department_format(department).ok
         THEN Raise(is_valid_department_format(department).msg)
    ELSE IF ~is_valid_email_format(email).ok THEN Raise(is_valid_email_format(email).msg)
    ELSE IF ~is_valid_salary_format(FloatStr(salary)).ok
         THEN Raise(is_valid_salary_format(FloatStr(salary)).msg)
    ELSE IF ~is_valid_contact_details_format(contact_details).ok
         THEN Raise(is_valid_contact_details_format(contact_details).msg)
    ELSE Ok([employee_id |-> Strip(employee_id),
             name |-> Strip(name),
             department |-> Strip(department),
             salary |-> salary,
             email |-> Strip(email),
             contact_details |-> Strip(contact_details)])

\* Employee.__init__: salary is a float; the first failing validator raises
Employee(employee_id, name, department, salary, email, contact_details) ==
    IF ~is_valid_employee_id_format(employee_id).ok
    THEN Raise(is_valid_employee_id_format(employee_id).msg)
    ELSE IF ~is_valid_name_format(name).ok THEN Raise(is_valid_name_format(name).msg)
    ELSE IF ~is_valid_department_format(department).ok
         THEN Raise(is_valid_department_format(department).msg)
    ELSE IF ~is_valid_salary_format(FloatStr(salary)).ok
         THEN Raise(is_valid_salary_format(FloatStr(salary)).msg)
    ELSE IF ~is_valid_email_format(email).ok THEN Raise(is_valid_email_format(email).msg)
    ELSE IF ~is_valid_contact_details_format(contact_details).ok
         THEN Raise(is_valid_contact_details_format(contact_details).msg)
    ELSE Ok([employee_id |-> Strip(employee_id),
             name |-> Strip(name),
             department |-> Strip(department),
             salary |-> salary,
             email |-> Strip(email),
             contact_details |-> Strip(contact_details)])

\* to_dict with the last two values exchanged
to_dict_contact_before_email(e) ==
    <<e.employee_id, e.name, e.department, Format2f(e.salary), e.contact_details, e.email>>

\* Employee.to_dict, as the values in EMPLOYEE_KEYS order
to_dict(e) ==
    <<e.employee_id, e.name, e.department, Format2f(e.salary), e.email, e.contact_details>>

\* from_dict that raises on a salary text that is no number
from_dict_raising(data_dict) ==
    IF ~ParseFloat(data_dict[4]).ok
    THEN Raise("Salary must be a valid number (e.g., 50000 or 65000.50).")
    ELSE Employee(data_dict[1], data_dict[2], data_dict[3], ParseFloat(data_dict[4]).val,
                  data_dict[5], data_dict[6])

\* Employee.from_dict on the values in EMPLOYEE_KEYS order: a salary text that
\* is no number gives None, a validation error of the constructor is re-raised
from_dict(data_dict) ==
    IF ~ParseFloat(data_dict[4]).ok THEN None
    ELSE Employee(data_dict[1], data_dict[2], data_dict[3], ParseFloat(data_dict[4]).val,
                  data_dict[5], data_dict[6])

(***************************************************************************)
(* Module configuration and the backing file.                              *)
(***************************************************************************)
DELIMITER == ","

EMPLOYEE_KEYS ==
    << <<"E", "m", "p", "l", "o", "y", "e", "e", " ", "I", "D">>,
       <<"N", "a", "m", "e">>,
       <<"D", "e", "p", "a", "r", "t", "m", "e", "n", "t">>,
       <<"S", "a", "l", "a", "r", "y">>,
       <<"E", "m", "a", "i", "l">>,
       <<"C", "o", "n", "t", "a", "c", "t", " ", "D", "e", "t", "a", "i", "l", "s">> >>

\* the header line _save_employees writes
HeaderLine == Join(EMPLOYEE_KEYS, DELIMITER)

\* one event of a step: what was printed or called, with its texts and a number
Event(ev, args, n) == [ev |-> ev, args |-> args, n |-> n]

\* a variant of the loop body that never compares the id with the ids already
\* loaded
LoadLineNoDuplicateCheck(acc, rawLine, line_num) ==
    IF Len(Strip(rawLine)) = 0 THEN acc
    ELSE IF Len(Split(Strip(rawLine), DELIMITER)) # Len(EMPLOYEE_KEYS)
         THEN [acc EXCEPT !.diag = Append(@, Event("skip_malformed", <<>>, line_num))]
    ELSE IF from_dict(Split(Strip(rawLine), DELIMITER)).tag = "none"
         THEN [acc EXCEPT !.diag = Append(@, Event("skip_none", <<>>, line_num))]
    ELSE IF from_dict(Split(Strip(rawLine), DELIMITER)).tag = "raise"
         THEN [acc EXCEPT !.diag = Append(@, Event("skip_invalid", <<>>, line_num))]
    ELSE [acc EXCEPT !.data = Append(@, from_dict(Split(Strip(rawLine), DELIMITER)).emp)]

\* a variant of the loop body that keeps the first six values of a longer line
LoadLineTruncating(acc, rawLine, line_num) ==
    IF Len(Strip(rawLine)) = 0 THEN acc
    ELSE IF Len(Split(Strip(rawLine), DELIMITER)) < Len(EMPLOYEE_KEYS)
         THEN [acc EXCEPT !.diag = Append(@, Event("skip_malformed", <<>>, line_num))]
    ELSE IF from_dict(SubSeq(Split(Strip(rawLine), DELIMITER), 1, 6)).tag = "none"
         THEN [acc EXCEPT !.diag = Append(@, Event("skip_none", <<>>, line_num))]
    ELSE IF from_dict(SubSeq(Split(Strip(rawLine), DELIMITER), 1, 6)).tag = "raise"
         THEN [acc EXCEPT !.diag = Append(@, Event("skip_invalid", <<>>, line_num))]
    ELSE [acc EXCEPT !.data = Append(@, from_dict(SubSeq(Split(Strip(rawLine), DELIMITER), 1, 6)).emp)]

\* the loop body of _load_employees for one line; acc is [data, diag]
LoadLine(acc, rawLine, line_num) ==
    LET line == Strip(rawLine)
        values == Split(line, DELIMITER)
        r == from_dict(values)
    IN  IF Len(line) = 0 THEN acc
        ELSE IF Len(values) # Len(EMPLOYEE_KEYS)
             THEN [acc EXCEPT !.diag = Append(@, Event("skip_malformed", <<>>, line_num))]
        ELSE IF r.tag = "none"
             THEN [acc EXCEPT !.diag = Append(@, Event("skip_none", <<>>, line_num))]
        ELSE IF r.tag = "raise"
             THEN [acc EXCEPT !.diag = Append(@, Event("skip_invalid", <<>>, line_num))]
        ELSE IF \E i \in 1..Len(acc.data) : acc.data[i].employee_id = r.emp.employee_id
             THEN [acc EXCEPT !.diag =
                       Append(@, Event("skip_duplicate", <<r.emp.employee_id>>, line_num))]
        ELSE [acc EXCEPT !.data = Append(@, r.emp)]

RECURSIVE LoadLines(_, _, _, _)
\* the for loop of _load_employees over the lines numbered from..to
LoadLines(lines, from, to, acc) ==
    IF from > to THEN acc
    ELSE LoadLines(lines, from + 1, to, LoadLine(acc, lines[from], from))

\* a read fault: none, FileNotFoundError from open(), or another exception
\* raised by open() (at = 0) or after `at` lines were read
NoReadFault == [kind |-> "none", at |-> 0]
ReadFaults(lines) ==
    {NoReadFault, [kind |-> "fnf", at |-> 0]}
        \cup {[kind |-> "io", at |-> k] : k \in 0..Len(lines)}

\* a variant of the handler without `employees_data = []`
OnReadFaultKeepingRecords(partial) ==
    [data |-> partial.data, diag |-> Append(partial.diag, Event("load_error", <<>>, 0))]

\* the handler `except Exception` of _load_employees: the records parsed so
\* far are dropped
OnReadFault(partial) ==
    [data |-> <<>>, diag |-> Append(partial.diag, Event("load_error", <<>>, 0))]

\* _load_employees: the loaded list and the diagnostics printed
load_employees(exists, lines, rf) ==
    LET empty == [data |-> <<>>, diag |-> <<>>]
    IN  IF ~exists THEN [data |-> <<>>, diag |-> <<Event("no_data_file", <<>>, 0)>>]
        ELSE IF rf.kind = "fnf"
             THEN [data |-> empty.data, diag |-> <<Event("no_data_file", <<>>, 0)>>]
        ELSE IF rf.kind = "io"
             THEN OnReadFault(LoadLines(lines, 2, rf.at, empty))
        ELSE LET done == LoadLines(lines, 2, Len(lines), empty)
             IN  [done EXCEPT !.diag = Append(@, Event("loaded", <<>>, Len(done.data)))]

\* the text _save_employees writes: the header, then one line per employee
FileContent(emps) ==
    <<HeaderLine>> \o [i \in 1..Len(emps) |-> Join(to_dict(emps[i]), DELIMITER)]

\* a write fault: none, open() raising (the file is untouched), or an exception
\* after the file was truncated and `at` whole lines reached it
NoWriteFault == [kind |-> "none", at |-> 0]
WriteFaults(emps) ==
    {NoWriteFault, [kind |-> "open", at |-> 0]}
        \cup {[kind |-> "write", at |-> k] : k \in 0..Len(emps)}

\* a variant of _save_employees that opens the file in mode 'a'
save_employees_appending(emps, wf, oldExists, oldLines) ==
    IF wf.kind = "none" THEN [exists |-> TRUE, lines |-> oldLines \o FileContent(emps)]
    ELSE IF wf.kind = "open" THEN [exists |-> oldExists, lines |-> oldLines]
    ELSE [exists |-> TRUE, lines |-> oldLines \o SubSeq(FileContent(emps), 1, wf.at)]

\* _save_employees: the backing file afterwards, as [exists, lines]
save_employees(emps, wf, oldExists, oldLines) ==
    IF wf.kind = "none" THEN [exists |-> TRUE, lines |-> FileContent(emps)]
    ELSE IF wf.kind = "open" THEN [exists |-> oldExists, lines |-> oldLines]
    ELSE [exists |-> TRUE, lines |-> SubSeq(FileContent(emps), 1, wf.at)]

\* what _save_employees prints and does, as events
SaveEvents(wf) ==
    IF wf.kind = "none" THEN <<Event("save", <<>>, 0)>>
    ELSE <<Event("save", <<>>, 0), Event("save_fault", <<>>, 0)>>

\* _find_employee_index_by_id: the first position holding the id, else -1
find_employee_index_by_id(emps, employee_id) ==
    LET hits == {i \in 1..Len(emps) : emps[i].employee_id = employee_id}
    IN  IF hits = {} THEN -1 ELSE CHOOSE i \in hits : \A j \in hits : i <= j

\* _find_employee_by_id: the first employee holding the id, else None
find_employee_by_id(emps, employee_id) ==
    LET i == find_employee_index_by_id(emps, employee_id)
    IN  IF i = -1 THEN None ELSE Ok(emps[i])

\* _does_department_exist with the comparison on the text as given
does_department_exist_exact(emps, department_name) ==
    IF department_name = <<>> THEN FALSE
    ELSE \E i \in 1..Len(emps) :
            emps[i].department # <<>> /\ emps[i].department = department_name

\* _does_department_exist: the name and each department lower-cased
does_department_exist(emps, department_name) ==
    IF department_name = <<>> THEN FALSE
    ELSE \E i \in 1..Len(emps) :
            emps[i].department # <<>> /\ Lower(emps[i].department) = Lower(department_name)

\* a variant of _is_employee_id_unique that finds every id new
every_id_unique(emps, employee_id) == TRUE

\* _is_employee_id_unique
is_employee_id_unique(emps, employee_id) ==
    find_employee_by_id(emps, employee_id).tag = "none"

(***************************************************************************)
(* The inputs of the model: what the user types at each prompt, and the    *)
(* data lines the backing file may hold before the program starts.         *)
(***************************************************************************)
\* typed at an Employee ID prompt: new, padded, not alphanumeric, empty
IdInputs ==
    { <<"B", "1">>,
      <<"B", "2">>,
      <<" ", "B", "1">>,
      <<"B", "-", "1">>,
      <<>> }

\* typed at the name prompt of add
NameInputs ==
    { <<"A", "l">>,
      <<" ", "A", "l", " ">>,
      <<"A", "1">> }

\* typed at the department prompt of add
DepartmentInputs ==
    { <<"E", "n", "g">>,
      <<"E", "!">> }

\* typed at the salary prompt of add
SalaryInputs ==
    { <<"5">>,
      <<"-", "1">>,
      <<"x">> }

\* typed at the email prompt of add
EmailInputs ==
    { <<"a", "@", "b", ".", "c">>,
      <<"a", "@", "b">> }

\* typed at the contact prompt of add
ContactInputs ==
    { <<"1">>,
      <<" ">> }

\* typed at a yes/no prompt
ConfirmInputs ==
    { <<"y">>,
      <<" ", "Y", "e", "s", " ">>,
      <<"n">> }

\* typed at the menu prompt and none of 1..7
InvalidChoices ==
    { <<"8">>,
      <<>> }

\* typed at the five prompts of update, in order (empty keeps the value); a
\* short sequence ends at an input the handler rejects
UpdateInputs ==
    { <<<<>>, <<>>, <<>>, <<>>, <<>>>>,
      <<<<"C", "y">>, <<>>, <<>>, <<>>, <<>>>>,
      <<<<"C", "y">>, <<"e", "n", "g">>, <<"7", ".", "5">>, <<"d", "@", "e", ".", "f">>, <<"1", ",", "2">>>>,
      <<<<" ">>, <<>>, <<"n", "a", "n">>, <<>>, <<>>>>,
      <<<<"C", "3">>>>,
      <<<<"C", "y">>, <<"e", "!">>>>,
      <<<<"C", "y">>, <<"e", "n", "g">>, <<"-", "1">>>>,
      <<<<"C", "y">>, <<"e", "n", "g">>, <<"7", ".", "5">>, <<"d", "@", "e">>>> }

\* data lines of the initial file: well formed, padded, five fields, salary no
\* number, negative salary, a second line for B1, blank
LinePool ==
    { <<"B", "1", ",", "A", "l", ",", "E", "n", "g", ",", "5", ",", "a", "@", "b", ".", "c", ",", "1">>,
      <<"B", "2", ",", " ", "B", "o", " ", ",", "E", "n", "g", ",", "5", ".", "0", "0", ",", "a", "@", "b", ".", "c", ",", "1", " ">>,
      <<"B", "2", ",", "A", "l", ",", "E", "n", "g", ",", "5", ",", "a", "@", "b", ".", "c">>,
      <<"B", "1", ",", "A", "l", ",", "E", "n", "g", ",", "x", ",", "a", "@", "b", ".", "c", ",", "1">>,
      <<"B", "2", ",", "A", "l", ",", "E", "n", "g", ",", "-", "1", ",", "a", "@", "b", ".", "c", ",", "1">>,
      <<"B", "1", ",", "B", "o", ",", "E", "n", "g", ",", "5", ",", "a", "@", "b", ".", "c", ",", "1">>,
      <<" ", " ">> }

RECURSIVE SeqsUpTo(_, _)
\* the sequences over S of length at most n
SeqsUpTo(S, n) ==
    IF n = 0 THEN {<<>>}
    ELSE SeqsUpTo(S, n - 1)
            \cup {Append(q, x) : q \in {t \in SeqsUpTo(S, n - 1) : Len(t) = n - 1}, x \in S}

\* every backing file of at most MaxDataLines data lines: absent (exists =
\* FALSE), empty, or a header and the data lines
LoadFiles ==
    {[exists |-> FALSE, lines |-> <<>>], [exists |-> TRUE, lines |-> <<>>]}
        \cup {[exists |-> TRUE, lines |-> <<HeaderLine>> \o d] : d \in SeqsUpTo(LinePool, MaxDataLines)}

\* the backing file before a session starts: absent, the header alone,
\* one record, two records, and a file with lines that load skips
InitFiles ==
    {[exists |-> FALSE, lines |-> <<>>],
     [exists |-> TRUE, lines |-> <<HeaderLine>>],
     [exists |-> TRUE, lines |-> <<HeaderLine, <<"B", "1", ",", "A", "l", ",", "E", "n", "g", ",", "5", ",", "a", "@", "b", ".", "c", ",", "1">>>>],
     [exists |-> TRUE, lines |-> <<HeaderLine, <<"B", "1", ",", "A", "l", ",", "E", "n", "g", ",", "5", ",", "a", "@", "b", ".", "c", ",", "1">>,
                                   <<"B", "2", ",", " ", "A", "l", " ", ",", "E", "n", "g", ",", "5", ".", "0", "0", ",", "a", "@", "b", ".", "c", ",", "1", " ">>>>],
     [exists |-> TRUE, lines |-> <<HeaderLine, <<"B", "2", ",", "A", "l", ",", "E", "n", "g", ",", "x", ",", "a", "@", "b", ".", "c", ",", "1">>,
                                   <<"B", "1", ",", "A", "l", ",", "E", "n", "g", ",", "5", ",", "a", "@", "b", ".", "c", ",", "1">>,
                                   <<"B", "1", ",", "B", "o", ",", "E", "n", "g", ",", "5", ",", "a", "@", "b", ".", "c", ",", "1">>>>]}

(***************************************************************************)
(* The session: construction, then the menu loop of run().  A handler that *)
(* has returned leaves the session at "returned" with its events in out;   *)
(* the loop then prints the menu again.                                    *)
(***************************************************************************)
EmptyPending ==
    [employee_id |-> <<>>, name |-> <<>>, department |-> <<>>, salary |-> NaN, email |-> <<>>]

Out(op, events) == [op |-> op, events |-> events]

AddPcs == {"add_id", "add_name", "add_department", "add_salary", "add_email", "add_contact"}

Init ==
    /\ \E f \in InitFiles : fileExists = f.exists /\ fileLines = f.lines
    /\ employees = <<>>
    /\ pc = "start"
    /\ pending = EmptyPending
    /\ out = Out("none", <<>>)
    /\ faults = 0
    /\ updates = 0

\* a variant of the constructor that saves what it loaded
ConstructSaving(rf) ==
    /\ pc = "start"
    /\ rf \in (IF fileExists THEN ReadFaults(fileLines) ELSE {NoReadFault})
    /\ employees' = load_employees(fileExists, fileLines, rf).data
    /\ out' = Out("load", load_employees(fileExists, fileLines, rf).diag)
    /\ fileExists' = TRUE
    /\ fileLines' = FileContent(employees')
    /\ pc' = "menu"
    /\ UNCHANGED <<pending, faults, updates>>

\* EmployeeManagementSystem.__init__: the list is what _load_employees returns
Construct(rf) ==
    /\ pc = "start"
    /\ rf \in (IF fileExists THEN ReadFaults(fileLines) ELSE {NoReadFault})
    /\ LET r == load_employees(fileExists, fileLines, rf)
       IN  /\ employees' = r.data
           /\ out' = Out("load", r.diag)
    /\ pc' = "menu"
    /\ UNCHANGED <<fileExists, fileLines, pending, faults, updates>>

\* a call of _save_employees on emps, under any write fault the budget allows
Persist(emps, wf) ==
    /\ wf \in (IF faults < MaxWriteFaults THEN WriteFaults(emps) ELSE {NoWriteFault})
    /\ LET f == save_employees(emps, wf, fileExists, fileLines)
       IN  fileExists' = f.exists /\ fileLines' = f.lines
    /\ faults' = IF wf.kind = "none" THEN faults ELSE faults + 1

\* a prompt loop asks again: nothing changes but what was printed
Again(o) ==
    /\ out' = o
    /\ UNCHANGED <<fileExists, fileLines, employees, pc, pending, faults, updates>>

\* a handler returns to run() having changed nothing
Returns(o) ==
    /\ out' = o
    /\ pc' = "returned"
    /\ UNCHANGED <<fileExists, fileLines, employees, pending, faults, updates>>

\* run(): the loop prints the menu again
ShowMenu ==
    /\ pc = "returned"
    /\ pc' = "menu"
    /\ out' = Out("menu", <<>>)
    /\ UNCHANGED <<fileExists, fileLines, employees, pending, faults, updates>>

(***************************************************************************)
(* add_employee: one step per prompt; the step of the last prompt builds,  *)
(* appends, saves and notifies.                                            *)
(***************************************************************************)
\* run(): choice '1'
AddBegin ==
    /\ pc = "menu"
    /\ pc' = "add_id"
    /\ pending' = EmptyPending
    /\ out' = Out("add", <<>>)
    /\ UNCHANGED <<fileExists, fileLines, employees, faults, updates>>

\* the prompt loop for the id: invalid and existing ids are asked again
AddId(raw) ==
    LET employee_id == Strip(raw)
    IN  /\ pc = "add_id"
        /\ IF ~is_valid_employee_id_format(employee_id).ok
           THEN Again(Out("add_id", <<Event("invalid", <<employee_id>>, 1)>>))
           ELSE IF ~is_employee_id_unique(employees, employee_id)
           THEN Again(Out("add_id", <<Event("exists", <<employee_id>>, 1)>>))
           ELSE /\ pending' = [pending EXCEPT !.employee_id = employee_id]
                /\ pc' = "add_name"
                /\ out' = Out("add_id", <<>>)
                /\ UNCHANGED <<fileExists, fileLines, employees, faults, updates>>

\* a prompt loop of add_employee for a field between the id and the contact:
\* an invalid input is asked again, a valid one is kept in the locals
AddField(at, next, raw, check, n, accepted) ==
    /\ pc = at
    /\ IF ~check.ok
       THEN Again(Out(at, <<Event("invalid", <<Strip(raw)>>, n)>>))
       ELSE /\ pc' = next
            /\ pending' = accepted
            /\ out' = Out(at, <<>>)
            /\ UNCHANGED <<fileExists, fileLines, employees, faults, updates>>

AddName(raw) ==
    AddField("add_name", "add_department", raw, is_valid_name_format(Strip(raw)), 2,
             [pending EXCEPT !.name = Strip(raw)])

AddDepartment(raw) ==
    AddField("add_department", "add_salary", raw, is_valid_department_format(Strip(raw)), 3,
             [pending EXCEPT !.department = Strip(raw)])

AddSalary(raw) ==
    AddField("add_salary", "add_email", raw, is_valid_salary_format(Strip(raw)), 4,
             [pending EXCEPT !.salary = ParseFloat(Strip(raw)).val])

AddEmail(raw) ==
    AddField("add_email", "add_contact", raw, is_valid_email_format(Strip(raw)), 5,
             [pending EXCEPT !.email = Strip(raw)])

\* how a call of _send_confirmation_email ends: the email is sent, a
\* credentials file is missing (FileNotFoundError), a credentials file is empty
\* (ValueError), send_email reports an SMTP or other fault, or another
\* exception is raised while preparing
NotifyOutcomes == {"sent", "no_file", "empty", "smtp", "error"}

\* a variant of the call that passes the name where the email belongs
send_confirmation_email_name_first(outcome, employee_id, employee_email, employee_name) ==
    <<Event(CASE outcome = "sent" -> "notify_sent"
              [] outcome = "no_file" -> "notify_no_file"
              [] outcome = "empty" -> "notify_empty"
              [] outcome = "smtp" -> "notify_smtp"
              [] OTHER -> "notify_error",
            <<employee_id, employee_name, employee_email>>, 0)>>

\* _send_confirmation_email: every exception is caught; what it prints
send_confirmation_email(outcome, employee_id, employee_email, employee_name) ==
    <<Event(CASE outcome = "sent" -> "notify_sent"
              [] outcome = "no_file" -> "notify_no_file"
              [] outcome = "empty" -> "notify_empty"
              [] outcome = "smtp" -> "notify_smtp"
              [] OTHER -> "notify_error",
            <<employee_id, employee_email, employee_name>>, 0)>>

\* a variant of the try block that notifies before it appends and saves
AddEventsNotifyFirst(e, size, wf, outcome) ==
    send_confirmation_email(outcome, pending.employee_id, pending.email, pending.name)
        \o <<Event("append", <<e.employee_id>>, size)>>
        \o SaveEvents(wf)
        \o <<Event("added", <<pending.employee_id>>, 0)>>

\* a variant of the try block that a write fault of the save ends
AddEventsEndingOnFault(e, size, wf, outcome) ==
    IF wf.kind # "none"
    THEN <<Event("append", <<e.employee_id>>, size)>> \o SaveEvents(wf)
    ELSE <<Event("append", <<e.employee_id>>, size)>>
            \o SaveEvents(wf)
            \o <<Event("added", <<pending.employee_id>>, 0)>>
            \o send_confirmation_email(outcome, pending.employee_id, pending.email, pending.name)

\* the events of the try block of add_employee once the record is built
AddEvents(e, size, wf, outcome) ==
    <<Event("append", <<e.employee_id>>, size)>>
        \o SaveEvents(wf)
        \o <<Event("added", <<pending.employee_id>>, 0)>>
        \o send_confirmation_email(outcome, pending.employee_id, pending.email, pending.name)

\* a variant of the append that puts the new record first
InsertEmployeeFirst(emps, e) == <<e>> \o emps

\* a variant of the append that overwrites the last record
OverwriteLastEmployee(emps, e) ==
    IF emps = <<>> THEN <<e>> ELSE [emps EXCEPT ![Len(emps)] = e]

\* a variant of the append that leaves the list as it was
DropEmployee(emps, e) == emps

\* self._employees_list.append(new_employee)
AppendEmployee(emps, e) == Append(emps, e)

\* the last prompt loop and the try block of add_employee
AddContact(raw) ==
    LET contact_details == Strip(raw)
        made == Employee(pending.employee_id, pending.name, pending.department,
                         pending.salary, pending.email, contact_details)
        grown == AppendEmployee(employees, made.emp)
    IN  /\ pc = "add_contact"
        /\ IF ~is_valid_contact_details_format(contact_details).ok
           THEN Again(Out("add_contact", <<Event("invalid", <<contact_details>>, 6)>>))
           ELSE IF made.tag = "raise"
           THEN /\ out' = Out("add_contact", <<Event("error", <<>>, 0)>>)
                /\ pc' = "returned"
                /\ pending' = EmptyPending
                /\ UNCHANGED <<fileExists, fileLines, employees, faults, updates>>
           ELSE /\ employees' = grown
                /\ \E wf \in WriteFaults(grown), outcome \in NotifyOutcomes :
                      /\ Persist(grown, wf)
                      /\ out' = Out("add_contact", AddEvents(made.emp, Len(grown), wf, outcome))
                /\ pc' = "returned"
                /\ pending' = EmptyPending
                /\ UNCHANGED updates

(***************************************************************************)
(* view_employee, update_employee, delete_employee: one step each, on the  *)
(* inputs the handler reads.                                               *)
(***************************************************************************)
\* the details view_employee prints
Details(e) == to_dict(e)

ViewEmployee(raw) ==
    LET employee_id_input == Strip(raw)
        found == find_employee_by_id(employees, employee_id_input)
    IN  /\ pc = "menu"
        /\ employees # <<>>
        /\ IF ~is_valid_employee_id_format(employee_id_input).ok
           THEN Returns(Out("view", <<Event("invalid", <<employee_id_input>>, 1)>>))
           ELSE IF found.tag = "ok"
           THEN Returns(Out("view", <<Event("found", Details(found.emp), 0)>>))
           ELSE Returns(Out("view", <<Event("not_found", <<employee_id_input>>, 0)>>))

\* view_employee, update_employee and delete_employee on an empty list return
\* before any prompt
NoRecords(op) ==
    /\ pc = "menu"
    /\ employees = <<>>
    /\ Returns(Out(op, <<Event("no_records", <<>>, 0)>>))

\* the validator update_employee applies at its k-th field prompt
UpdateCheck(k, text) ==
    CASE k = 1 -> is_valid_name_format(text)
      [] k = 2 -> is_valid_department_format(text)
      [] k = 3 -> is_valid_salary_format(text)
      [] k = 4 -> is_valid_email_format(text)
      [] OTHER -> is_valid_contact_details_format(text)

\* a variant of the assignments in which the email prompt overwrites the
\* contact details
UpdateAssignEmailToContact(u, k, text) ==
    CASE k = 1 -> [u EXCEPT !.name = text]
      [] k = 2 -> [u EXCEPT !.department = text]
      [] k = 3 -> [u EXCEPT !.salary = ParseFloat(text).val]
      [] k = 4 -> [u EXCEPT !.contact_details = text]
      [] OTHER -> [u EXCEPT !.contact_details = text]

\* the assignment to updated_<field> after the k-th prompt accepted text
UpdateAssign(u, k, text) ==
    CASE k = 1 -> [u EXCEPT !.name = text]
      [] k = 2 -> [u EXCEPT !.department = text]
      [] k = 3 -> [u EXCEPT !.salary = ParseFloat(text).val]
      [] k = 4 -> [u EXCEPT !.email = text]
      [] OTHER -> [u EXCEPT !.contact_details = text]

RECURSIVE UpdatePrompts(_, _, _, _)
\* the five field prompts of update_employee from the k-th on: u holds the
\* updated_* locals, changed is changes_made; the result says whether the
\* handler returned early and how many inputs it read
UpdatePrompts(ins, k, u, changed) ==
    IF k > 5 \/ k > Len(ins)
    THEN [aborted |-> FALSE, read |-> k - 1, u |-> u, changes_made |-> changed]
    ELSE LET text == Strip(ins[k])
         IN  IF Len(text) = 0 THEN UpdatePrompts(ins, k + 1, u, changed)
             ELSE IF ~UpdateCheck(k, text).ok
                  THEN [aborted |-> TRUE, read |-> k, u |-> u, changes_made |-> changed]
             ELSE UpdatePrompts(ins, k + 1, UpdateAssign(u, k, text), TRUE)

\* a confirmation that takes every answer for yes
ConfirmedAlways(raw) == TRUE

\* confirmation in ['yes', 'y'] after lower() and strip()
Confirmed(raw) == Strip(Lower(raw)) \in {<<"y", "e", "s">>, <<"y">>}

\* update_employee up to the search for the id
UpdateLookup(raw) ==
    LET employee_id_input == Strip(raw)
    IN  /\ pc = "menu"
        /\ employees # <<>>
        /\ \/ ~is_valid_employee_id_format(employee_id_input).ok
           \/ find_employee_index_by_id(employees, employee_id_input) = -1
        /\ IF ~is_valid_employee_id_format(employee_id_input).ok
           THEN Returns(Out("update", <<Event("invalid", <<employee_id_input>>, 1)>>))
           ELSE Returns(Out("update", <<Event("not_found", <<employee_id_input>>, 0)>>))

\* update_employee writing each accepted input into the stored record at once,
\* so that an update aborted later keeps the fields accepted before
UpdateEmployeeAssigningEarly(raw, ins, confirmation) ==
    LET employee_id_input == Strip(raw)
        found_employee_index == find_employee_index_by_id(employees, employee_id_input)
        employee_to_update == employees[found_employee_index]
        p == UpdatePrompts(ins, 1, employee_to_update, FALSE)
        changed_list == [employees EXCEPT ![found_employee_index] = p.u]
    IN  /\ pc = "menu"
        /\ employees # <<>>
        /\ is_valid_employee_id_format(employee_id_input).ok
        /\ found_employee_index # -1
        /\ p.read = Len(ins)
        /\ IF p.aborted \/ ~p.changes_made \/ ~Confirmed(confirmation)
           THEN /\ employees' = changed_list
                /\ out' = Out("update",
                              <<Event(IF p.aborted THEN "aborted"
                                      ELSE IF ~p.changes_made THEN "no_changes"
                                      ELSE "cancelled", <<>>,
                                      IF p.aborted THEN p.read ELSE 0)>>)
                /\ pc' = "returned"
                /\ UNCHANGED <<fileExists, fileLines, pending, faults, updates>>
           ELSE /\ updates < MaxUpdates
                /\ employees' = changed_list
                /\ \E wf \in WriteFaults(changed_list) :
                      /\ Persist(changed_list, wf)
                      /\ out' = Out("update",
                                    SaveEvents(wf)
                                       \o <<Event("updated", <<>>, 0)>>)
                /\ updates' = updates + 1
                /\ pc' = "returned"
                /\ UNCHANGED pending

\* update_employee from the field prompts on, for an id that was found
UpdateEmployee(raw, ins, confirmation) ==
    LET employee_id_input == Strip(raw)
        found_employee_index == find_employee_index_by_id(employees, employee_id_input)
        employee_to_update == employees[found_employee_index]
        p == UpdatePrompts(ins, 1, employee_to_update, FALSE)
        changed_list == [employees EXCEPT ![found_employee_index] = p.u]
    IN  /\ pc = "menu"
        /\ employees # <<>>
        /\ is_valid_employee_id_format(employee_id_input).ok
        /\ found_employee_index # -1
        /\ p.read = Len(ins)
        /\ IF p.aborted
           THEN Returns(Out("update",
                            <<Event("aborted", <<>>, p.read)>>))
           ELSE IF ~p.changes_made
           THEN Returns(Out("update",
                            <<Event("no_changes", <<>>, 0)>>))
           ELSE IF ~Confirmed(confirmation)
           THEN Returns(Out("update", <<Event("cancelled", <<>>, 0)>>))
           ELSE /\ updates < MaxUpdates
                /\ employees' = changed_list
                /\ \E wf \in WriteFaults(changed_list) :
                      /\ Persist(changed_list, wf)
                      /\ out' = Out("update",
                                    SaveEvents(wf)
                                       \o <<Event("updated", <<>>, 0)>>)
                /\ updates' = updates + 1
                /\ pc' = "returned"
                /\ UNCHANGED pending

\* a variant of the del that removes the first record whatever the index
DeleteFirst(emps, index) == Tail(emps)

\* del self._employees_list[index]
DeleteAt(emps, index) == SubSeq(emps, 1, index - 1) \o SubSeq(emps, index + 1, Len(emps))

DeleteEmployee(raw, confirmation) ==
    LET employee_id_input == Strip(raw)
        found_employee_index == find_employee_index_by_id(employees, employee_id_input)
        shrunk == DeleteAt(employees, found_employee_index)
    IN  /\ pc = "menu"
        /\ employees # <<>>
        /\ IF ~is_valid_employee_id_format(employee_id_input).ok
           THEN Returns(Out("delete", <<Event("invalid", <<employee_id_input>>, 1)>>))
           ELSE IF found_employee_index = -1
           THEN Returns(Out("delete", <<Event("not_found", <<employee_id_input>>, 0)>>))
           ELSE IF ~Confirmed(confirmation)
           THEN Returns(Out("delete", <<Event("cancelled", <<>>, 0)>>))
           ELSE /\ employees' = shrunk
                /\ \E wf \in WriteFaults(shrunk) :
                      /\ Persist(shrunk, wf)
                      /\ out' = Out("delete",
                                    SaveEvents(wf)
                                       \o <<Event("deleted", <<employee_id_input>>, 0)>>)
                /\ pc' = "returned"
                /\ UNCHANGED <<pending, updates>>

(***************************************************************************)
(* list_all_employees and generate_department_report: they print and       *)
(* change nothing.                                                         *)
(***************************************************************************)
\* the characters of the model in code point order
CharOrder ==
    <<"\t", " ", "!", ",", "-", ".">> \o DigitChars \o <<"@">> \o UpperLetters \o LowerLetters

Ord(c) == CHOOSE i \in 1..Len(CharOrder) : CharOrder[i] = c

RECURSIVE StrLess(_, _)
\* a < b on str: the first differing character decides, a proper prefix is less
StrLess(a, b) ==
    IF b = <<>> THEN FALSE
    ELSE IF a = <<>> THEN TRUE
    ELSE IF a[1] = b[1] THEN StrLess(Tail(a), Tail(b))
    ELSE Ord(a[1]) < Ord(b[1])

\* the first position of a least key
FirstLeast(keys) ==
    CHOOSE i \in 1..Len(keys) :
        /\ \A j \in 1..Len(keys) : ~StrLess(keys[j], keys[i])
        /\ \A j \in 1..(i - 1) : keys[j] # keys[i]

Without(q, i) == SubSeq(q, 1, i - 1) \o SubSeq(q, i + 1, Len(q))

\* sorted(items, key=...) that leaves the list as it is
KeptInOrder(items, keys) == items

RECURSIVE SortedByKeys(_, _)
\* sorted(items, key=...): stable, keys[i] is the key of items[i]
SortedByKeys(items, keys) ==
    IF items = <<>> THEN <<>>
    ELSE <<items[FirstLeast(keys)]>>
            \o SortedByKeys(Without(items, FirstLeast(keys)), Without(keys, FirstLeast(keys)))

\* str.upper()
UpperChar(c) ==
    IF c \in Range(LowerLetters)
    THEN UpperLetters[CHOOSE i \in 1..Len(LowerLetters) : LowerLetters[i] = c]
    ELSE c

Upper(s) == [i \in 1..Len(s) |-> UpperChar(s[i])]

\* the rows list_all_employees prints, for the sorted list
ListRows(sorted_list) ==
    [i \in 1..Len(sorted_list) |->
        Event("row", <<sorted_list[i].employee_id, sorted_list[i].name,
                       sorted_list[i].department>>, 0)]

\* what list_all_employees prints for the list emps
list_all_employees(emps) ==
    IF emps = <<>> THEN <<Event("no_records", <<>>, 0)>>
    ELSE ListRows(SortedByKeys(emps, [i \in 1..Len(emps) |-> emps[i].employee_id]))
            \o <<Event("total", <<>>, Len(emps))>>

\* run(): choice '5'
ListAllEmployees ==
    /\ pc = "menu"
    /\ Returns(Out("list", list_all_employees(employees)))

\* dept_key without lower()
DeptKeyCaseSensitive(e) ==
    IF e.department # <<>> THEN Strip(e.department)
    ELSE <<"u", "n", "c", "a", "t", "e", "g", "o", "r", "i", "z", "e", "d">>

\* dept_key and dept_display_name of an employee
DeptKey(e) ==
    IF e.department # <<>> THEN Lower(Strip(e.department))
    ELSE <<"u", "n", "c", "a", "t", "e", "g", "o", "r", "i", "z", "e", "d">>

DeptDisplayName(e) ==
    IF e.department # <<>> THEN Strip(e.department)
    ELSE <<"U", "n", "c", "a", "t", "e", "g", "o", "r", "i", "z", "e", "d">>

\* the employees that open an entry of departments_data, in insertion order
DeptFirsts(emps) ==
    SelectSeq(emps, LAMBDA e :
        \E i \in 1..Len(emps) :
            /\ emps[i] = e
            /\ \A j \in 1..(i - 1) : DeptKey(emps[j]) # DeptKey(e))

\* departments_data[dept_key]['employees'] for the entry that first opens
DeptMembers(emps, first) == SelectSeq(emps, LAMBDA e : DeptKey(e) = DeptKey(first))

RECURSIVE SumSalaries(_)
\* total_salary_dept: float addition, nan once a nan is added
SumSalaries(members) ==
    IF members = <<>> THEN Num(0)
    ELSE IF members[1].salary.k = "nan" \/ SumSalaries(Tail(members)).k = "nan" THEN NaN
    ELSE Num(members[1].salary.v + SumSalaries(Tail(members)).v)

\* the rows of one department, for its members sorted by name
DeptRows(sorted_dept_list) ==
    [i \in 1..Len(sorted_dept_list) |->
        Event("row", <<sorted_dept_list[i].employee_id, sorted_dept_list[i].name,
                       Format2f(sorted_dept_list[i].salary), sorted_dept_list[i].email>>, 0)]

\* what the loop over sorted_dept_keys prints for one department
DeptSection(department_name, employees_in_dept) ==
    <<Event("department", <<Upper(department_name)>>, 0)>>
        \o DeptRows(SortedByKeys(employees_in_dept,
                                 [i \in 1..Len(employees_in_dept) |-> employees_in_dept[i].name]))
        \o <<Event("dept_employees", <<department_name>>, Len(employees_in_dept)),
             Event("dept_salary",
                   <<department_name, Format2f(SumSalaries(employees_in_dept))>>, 0)>>

RECURSIVE DeptSections(_, _)
DeptSections(emps, firsts) ==
    IF firsts = <<>> THEN <<>>
    ELSE DeptSection(DeptDisplayName(firsts[1]), DeptMembers(emps, firsts[1]))
            \o DeptSections(emps, Tail(firsts))

\* the department entries ordered by display name
SortedDepts(firsts) ==
    SortedByKeys(firsts, [i \in 1..Len(firsts) |-> DeptDisplayName(firsts[i])])

RECURSIVE TotalEmployeesOverall(_, _)
\* total_employees_overall: the sum of len(employees_in_dept) over the entries
TotalEmployeesOverall(emps, firsts) ==
    IF firsts = <<>> THEN 0
    ELSE Len(DeptMembers(emps, firsts[1])) + TotalEmployeesOverall(emps, Tail(firsts))

\* what generate_department_report prints for the list emps
generate_department_report(emps) ==
    IF emps = <<>> THEN <<Event("no_records", <<>>, 0)>>
    ELSE DeptSections(emps, SortedDepts(DeptFirsts(emps)))
            \o <<Event("report_complete", <<>>, Len(DeptFirsts(emps))),
                 Event("report_total", <<>>,
                       TotalEmployeesOverall(emps, SortedDepts(DeptFirsts(emps))))>>

\* run(): choice '6'
GenerateDepartmentReport ==
    /\ pc = "menu"
    /\ Returns(Out("report", generate_department_report(employees)))

(***************************************************************************)
(* run(): Exit, an unknown choice, end of input and Ctrl-C.                *)
(***************************************************************************)
\* choice '7' leaving the loop without the save
ExitWithoutSaving ==
    /\ pc = "menu"
    /\ out' = Out("exit", <<>>)
    /\ pc' = "exited"
    /\ UNCHANGED <<fileExists, fileLines, employees, pending, faults, updates>>

\* choice '7': save and leave the loop
Exit ==
    /\ pc = "menu"
    /\ \E wf \in WriteFaults(employees) :
          /\ Persist(employees, wf)
          /\ out' = Out("exit", SaveEvents(wf))
    /\ pc' = "exited"
    /\ UNCHANGED <<employees, pending, updates>>

\* any other text at the menu prompt
InvalidChoice(raw) ==
    /\ pc = "menu"
    /\ Returns(Out("invalid_choice", <<Event("invalid", <<raw>>, 0)>>))

\* EOFError raised by an input() of a handler: caught by run(), which saves
\* and leaves the loop.  view, update and delete prompt only for a non-empty list
EndOfInputInHandler ==
    /\ pc \in AddPcs \/ (pc = "menu" /\ employees # <<>>)
    /\ \E wf \in WriteFaults(employees) :
          /\ Persist(employees, wf)
          /\ out' = Out("eof", SaveEvents(wf))
    /\ pc' = "exited"
    /\ pending' = EmptyPending
    /\ UNCHANGED <<employees, updates>>

\* KeyboardInterrupt raised by an input() of a handler: back to the menu
InterruptInHandler ==
    /\ pc \in AddPcs \/ (pc = "menu" /\ employees # <<>>)
    /\ pc' = "returned"
    /\ pending' = EmptyPending
    /\ out' = Out("interrupt", <<>>)
    /\ UNCHANGED <<fileExists, fileLines, employees, faults, updates>>

\* an exception that is neither of the two, raised in a handler outside its
\* own try blocks (at a prompt, before anything is changed): caught by the
\* last except clause of run(), and the loop goes on
UnexpectedInHandler ==
    /\ pc \in AddPcs \/ pc = "menu"
    /\ pc' = "returned"
    /\ pending' = EmptyPending
    /\ out' = Out("unexpected", <<>>)
    /\ UNCHANGED <<fileExists, fileLines, employees, faults, updates>>

\* what the input() of the menu prompt can raise
MenuPromptFaults == {"eof", "interrupt"}

\* EOFError or KeyboardInterrupt raised by the input() of the menu prompt,
\* which is outside the try block: the exception leaves run()
UncaughtAtMenu(cause) ==
    /\ pc = "menu"
    /\ pc' = "crashed"
    /\ out' = Out("uncaught", <<Event(cause, <<>>, 0)>>)
    /\ UNCHANGED <<fileExists, fileLines, employees, pending, faults, updates>>

Next ==
    \/ \E rf \in ReadFaults(fileLines) : Construct(rf)
    \/ ShowMenu
    \/ AddBegin
    \/ \E raw \in IdInputs : AddId(raw)
    \/ \E raw \in NameInputs : AddName(raw)
    \/ \E raw \in DepartmentInputs : AddDepartment(raw)
    \/ \E raw \in SalaryInputs : AddSalary(raw)
    \/ \E raw \in EmailInputs : AddEmail(raw)
    \/ \E raw \in ContactInputs : AddContact(raw)
    \/ \E op \in {"view", "update", "delete"} : NoRecords(op)
    \/ \E raw \in IdInputs : ViewEmployee(raw)
    \/ \E raw \in IdInputs : UpdateLookup(raw)
    \/ \E raw \in IdInputs, ins \in UpdateInputs, c \in ConfirmInputs :
          UpdateEmployee(raw, ins, c)
    \/ \E raw \in IdInputs, c \in ConfirmInputs : DeleteEmployee(raw, c)
    \/ ListAllEmployees
    \/ GenerateDepartmentReport
    \/ Exit
    \/ \E raw \in InvalidChoices : InvalidChoice(raw)
    \/ EndOfInputInHandler
    \/ InterruptInHandler
    \/ UnexpectedInHandler
    \/ \E cause \in MenuPromptFaults : UncaughtAtMenu(cause)

Spec == Init /\ [][Next]_vars

(***************************************************************************)
(* Construction alone, on every backing file of LoadFiles.                 *)
(***************************************************************************)
InitLoad ==
    /\ \E f \in LoadFiles : fileExists = f.exists /\ fileLines = f.lines
    /\ employees = <<>>
    /\ pc = "start"
    /\ pending = EmptyPending
    /\ out = Out("none", <<>>)
    /\ faults = 0
    /\ updates = 0

NextLoad == \E rf \in ReadFaults(fileLines) : Construct(rf)

SpecLoad == InitLoad /\ [][NextLoad]_vars

(***************************************************************************)
(* Properties of the store.                                                *)
(***************************************************************************)
\* the ids held by a list of employees, as a set and in list order
IdsOf(emps) == {emps[i].employee_id : i \in 1..Len(emps)}
IdSeq(emps) == [i \in 1..Len(emps) |-> emps[i].employee_id]

\* an event named ev is among those of the step that produced o
HasEvent(o, ev) == \E i \in 1..Len(o.events) : o.events[i].ev = ev

\* the ids a lookup is tried with
LookupIds == {Strip(raw) : raw \in IdInputs} \cup {<<"B", "3">>}

\* no whitespace at either end
Trimmed(s) == s = <<>> \/ (s[1] \notin White /\ s[Len(s)] \notin White)

\* the line of the backing file for a record, field by field
RecordLine(e) ==
    e.employee_id \o <<",">> \o e.name \o <<",">> \o e.department \o <<",">>
        \o Format2f(e.salary) \o <<",">> \o e.email \o <<",">> \o e.contact_details

\* C1: in every reachable state no two records of the in-memory collection
\* have the same id
C1_UniqueIds ==
    \A i, j \in 1..Len(employees) :
        employees[i].employee_id = employees[j].employee_id => i = j

\* an add has completed on a list that already held a record
C1_Witness ==
    /\ pc = "returned"
    /\ out.op = "add_contact"
    /\ HasEvent(out, "added")
    /\ Len(employees) = 2

\* C2: an add attempt with the id of a stored record is rejected at the id
\* prompt: the step leaves the collection and the backing file as they were
\* and asks again, and no later prompt of add is reached with a stored id
C2_DuplicateAddRejected ==
    /\ [][\A raw \in IdInputs :
            (pc = "add_id" /\ Strip(raw) \in IdsOf(employees) /\ AddId(raw))
                => /\ pc' = "add_id"
                   /\ employees' = employees
                   /\ fileExists' = fileExists
                   /\ fileLines' = fileLines
                   /\ HasEvent(out', "exists")]_vars
    /\ [](pc \in AddPcs \ {"add_id"} => pending.employee_id \notin IdsOf(employees))

\* the id prompt has just refused the id of a stored record
C2_Witness ==
    /\ pc = "add_id"
    /\ out.op = "add_id"
    /\ HasEvent(out, "exists")
    /\ out.events[1].args[1] \in IdsOf(employees)

\* C3: every stored record satisfies the six field predicates and has no
\* leading or trailing whitespace in a string field (violated: the salary
\* text "nan" passes is_valid_salary_format)
C3_AllRecordsValid ==
    \A i \in 1..Len(employees) :
        LET e == employees[i]
        IN  /\ e.employee_id # <<>>
            /\ \A k \in 1..Len(e.employee_id) : e.employee_id[k] \in Letter \cup Digit
            /\ e.name # <<>>
            /\ \A k \in 1..Len(e.name) : e.name[k] \in Letter \cup {" "}
            /\ e.department # <<>>
            /\ \A k \in 1..Len(e.department) : e.department[k] \in Letter \cup Digit \cup {" ", "-"}
            /\ e.salary.k = "num"
            /\ e.salary.v >= 0
            /\ \A k \in 1..Len(e.email) : e.email[k] \notin White
            /\ \E a \in 2..Len(e.email) : \E d \in (a + 2)..(Len(e.email) - 1) :
                  e.email[a] = "@" /\ e.email[d] = "."
            /\ e.contact_details # <<>>
            /\ Trimmed(e.employee_id)
            /\ Trimmed(e.name)
            /\ Trimmed(e.department)
            /\ Trimmed(e.email)
            /\ Trimmed(e.contact_details)

\* C4: after a completed add, a confirmed update, a confirmed delete and Exit
\* whose save met no write fault, the backing file is the header line and then
\* one line per record of the collection, in collection order, and nothing else
C4_FileMirrorsMemory ==
    (/\ pc \in {"returned", "exited"}
     /\ out.op \in {"add_contact", "update", "delete", "exit"}
     /\ HasEvent(out, "save")
     /\ ~HasEvent(out, "save_fault"))
        => /\ fileExists
           /\ Len(fileLines) = Len(employees) + 1
           /\ Split(fileLines[1], DELIMITER) = EMPLOYEE_KEYS
           /\ \A i \in 1..Len(employees) : fileLines[i + 1] = RecordLine(employees[i])

\* a confirmed delete has rewritten a file of two records as a file of one
C4_Witness ==
    /\ pc = "returned"
    /\ out.op = "delete"
    /\ HasEvent(out, "save")
    /\ ~HasEvent(out, "save_fault")
    /\ Len(employees) = 1
    /\ Len(fileLines) = 2

\* C5: a successful add of a new id X grows the collection by one and makes
\* find_by_id(X) return the record with the values supplied, trimmed; an id
\* stays in the collection until a delete of that id; find_by_id finds exactly
\* the ids some record holds
C5_AddThenFind ==
    /\ [][\A raw \in ContactInputs :
            (pc = "add_contact" /\ AddContact(raw) /\ HasEvent(out', "added"))
                => /\ Len(employees') = Len(employees) + 1
                   /\ pending.employee_id \notin IdsOf(employees)
                   /\ find_employee_by_id(employees', pending.employee_id)
                        = Ok([employee_id |-> pending.employee_id,
                              name |-> pending.name,
                              department |-> pending.department,
                              salary |-> pending.salary,
                              email |-> pending.email,
                              contact_details |-> Strip(raw)])
                   /\ Trimmed(pending.name) /\ Trimmed(pending.department)
                   /\ Trimmed(pending.email) /\ Trimmed(pending.employee_id)]_vars
    /\ [][\A x \in IdsOf(employees) :
            \/ x \in IdsOf(employees')
            \/ /\ out'.op = "delete"
               /\ HasEvent(out', "deleted")
               /\ out'.events[Len(out'.events)].args = <<x>>]_vars
    /\ [](\A x \in LookupIds :
            /\ find_employee_by_id(employees, x).tag = "ok" <=> x \in IdsOf(employees)
            /\ find_employee_by_id(employees, x).tag = "ok"
                  => find_employee_by_id(employees, x).emp.employee_id = x)

\* an add with a padded name has completed and the record is found by its id
C5_Witness ==
    /\ pc = "returned"
    /\ out.op = "add_contact"
    /\ HasEvent(out, "added")
    /\ find_employee_by_id(employees, out.events[1].args[1]).tag = "ok"
    /\ find_employee_by_id(employees, <<"B", "3">>).tag = "none"

\* C6: after a confirmed delete of a stored id X, find_by_id(X) finds nothing
\* and the collection is one shorter; when the save met no write fault no line
\* of the backing file is for X, and the file of the only record is left as
\* the header line alone
C6_ConfirmedDelete ==
    [][\A raw \in IdInputs, c \in ConfirmInputs :
          (/\ pc = "menu"
           /\ Strip(raw) \in IdsOf(employees)
           /\ Confirmed(c)
           /\ DeleteEmployee(raw, c))
              => /\ find_employee_by_id(employees', Strip(raw)).tag = "none"
                 /\ Len(employees') = Len(employees) - 1
                 /\ ~HasEvent(out', "save_fault")
                       => /\ \A k \in 2..Len(fileLines') :
                                Split(fileLines'[k], DELIMITER)[1] # Strip(raw)
                          /\ Len(employees) = 1 => fileLines' = <<HeaderLine>>]_vars

\* the only record has been deleted and the file is the header line
C6_Witness ==
    /\ pc = "returned"
    /\ out.op = "delete"
    /\ HasEvent(out, "deleted")
    /\ ~HasEvent(out, "save_fault")
    /\ employees = <<>>
    /\ fileLines = <<HeaderLine>>

\* the record after an update of old on the inputs ins: a field with an input
\* that is not blank holds the input, trimmed, and a field with a blank input
\* is as it was
UpdatedAs(old, new, ins) ==
    /\ new.employee_id = old.employee_id
    /\ new.name = IF Strip(ins[1]) # <<>> THEN Strip(ins[1]) ELSE old.name
    /\ new.department = IF Strip(ins[2]) # <<>> THEN Strip(ins[2]) ELSE old.department
    /\ new.salary = IF Strip(ins[3]) # <<>> THEN ParseFloat(ins[3]).val ELSE old.salary
    /\ new.email = IF Strip(ins[4]) # <<>> THEN Strip(ins[4]) ELSE old.email
    /\ new.contact_details
         = IF Strip(ins[5]) # <<>> THEN Strip(ins[5]) ELSE old.contact_details

\* C7: a successful update of record X changes exactly the fields other than
\* the id for which a value was supplied and no other record; no step changes
\* the id of a record: the ids keep their order, an add appends one and a
\* delete removes one
C7_UpdateFrame ==
    /\ [][(pc = "menu" /\ out'.op = "update" /\ HasEvent(out', "updated"))
            => \A raw \in IdInputs, ins \in UpdateInputs, c \in ConfirmInputs :
                  (Len(ins) = 5 /\ Confirmed(c) /\ UpdateEmployee(raw, ins, c))
                      => /\ Len(employees') = Len(employees)
                         /\ \A j \in 1..Len(employees) :
                               IF employees[j].employee_id = Strip(raw)
                               THEN UpdatedAs(employees[j], employees'[j], ins)
                               ELSE employees'[j] = employees[j]]_vars
    /\ [][\/ pc = "start"
          \/ IdSeq(employees') = IdSeq(employees)
          \/ /\ out'.op = "add_contact"
             /\ IdSeq(employees') = Append(IdSeq(employees), pending.employee_id)
          \/ /\ out'.op = "delete"
             /\ \E k \in 1..Len(employees) :
                   IdSeq(employees')
                     = SubSeq(IdSeq(employees), 1, k - 1)
                         \o SubSeq(IdSeq(employees), k + 1, Len(employees))]_vars

\* an update that supplied a name only has completed on the first of two
\* records
C7_Witness ==
    /\ pc = "returned"
    /\ out.op = "update"
    /\ HasEvent(out, "updated")
    /\ Len(employees) = 2
    /\ employees[1].name = <<"C", "y">>
    /\ employees[1].department = <<"E", "n", "g">>
    /\ employees[2].name = <<"A", "l">>

\* a data line has the expected field count, parses and validates as a record
GoodLine(rawLine) ==
    /\ Len(Split(Strip(rawLine), DELIMITER)) = Len(EMPLOYEE_KEYS)
    /\ from_dict(Split(Strip(rawLine), DELIMITER)).tag = "ok"

\* the record of a good line, and the id text of any line
RecordOfLine(rawLine) == from_dict(Split(Strip(rawLine), DELIMITER)).emp
LineId(rawLine) == Strip(Split(Strip(rawLine), DELIMITER)[1])

\* the n-th smallest member of a set of numbers
NthOf(S, n) == CHOOSE k \in S : Cardinality({j \in S : j < k}) = n - 1

\* the line numbers of the skip diagnostics of a load
SkipEvents == {"skip_malformed", "skip_none", "skip_invalid", "skip_duplicate"}
SkippedLines == {out.events[i].n : i \in {j \in 1..Len(out.events) : out.events[j].ev \in SkipEvents}}

\* load has run to its end on a file: employees is the records of the line
\* numbers in kept, in file order, and exactly the other lines that are not
\* blank were reported, once each
LoadedExactly(kept) ==
    (pc = "menu" /\ out.op = "load" /\ HasEvent(out, "loaded"))
        => /\ Len(employees) = Cardinality(kept)
           /\ \A n \in 1..Len(employees) :
                 employees[n] = RecordOfLine(fileLines[NthOf(kept, n)])
           /\ SkippedLines = {k \in 2..Len(fileLines) : Strip(fileLines[k]) # <<>>} \ kept
           /\ Len(out.events) = Cardinality(SkippedLines) + 1

\* C8 as stated: the loaded collection is the good lines that are the first
\* line in the file with their id, whatever the earlier lines with the id are
C8_FirstLineInFile ==
    LoadedExactly({k \in 2..Len(fileLines) :
                      /\ GoodLine(fileLines[k])
                      /\ \A j \in 2..(k - 1) :
                            Strip(fileLines[j]) = <<>> \/ LineId(fileLines[j]) # LineId(fileLines[k])})

\* C8: the loaded collection is, in file order, the good lines that are the
\* first good line with their id; every other line that is not blank is
\* skipped and reported, and lines after it are still loaded
C8_FirstGoodLine ==
    LoadedExactly({k \in 2..Len(fileLines) :
                      /\ GoodLine(fileLines[k])
                      /\ \A j \in 2..(k - 1) :
                            GoodLine(fileLines[j])
                               => RecordOfLine(fileLines[j]).employee_id
                                    # RecordOfLine(fileLines[k]).employee_id})

\* a record was loaded from the line after a skipped line that carries its id
C8_Witness ==
    /\ pc = "menu"
    /\ HasEvent(out, "loaded")
    /\ Len(fileLines) = 3
    /\ ~GoodLine(fileLines[2])
    /\ GoodLine(fileLines[3])
    /\ LineId(fileLines[2]) = LineId(fileLines[3])
    /\ Len(employees) = 1

\* C9: when the backing file does not exist, or a read fault occurs at any
\* point of the read, construction completes with an empty collection
C9_UnreadableFileLoadsNothing ==
    [][\A rf \in ReadFaults(fileLines) :
          (pc = "start" /\ Construct(rf) /\ (~fileExists \/ rf.kind # "none"))
              => /\ employees' = <<>>
                 /\ pc' = "menu"
                 /\ HasEvent(out', "load_error") \/ HasEvent(out', "no_data_file")]_vars

\* a read fault after a good line and a skipped line were read: nothing is
\* kept
C9_Witness ==
    /\ pc = "menu"
    /\ HasEvent(out, "load_error")
    /\ HasEvent(out, "skip_none")
    /\ GoodLine(fileLines[2])
    /\ employees = <<>>

\* C10: an add, update or delete whose save meets a write fault keeps the
\* change in memory and returns to the menu as it does without the fault
C10_WriteFaultNotFatal ==
    /\ [][(out'.op = "add_contact" /\ HasEvent(out', "save_fault"))
            => /\ pc' = "returned"
               /\ HasEvent(out', "added")
               /\ Len(employees') = Len(employees) + 1
               /\ SubSeq(employees', 1, Len(employees)) = employees
               /\ employees'[Len(employees')].employee_id = pending.employee_id]_vars
    /\ [][(pc = "menu" /\ out'.op = "update" /\ HasEvent(out', "save_fault"))
            => /\ pc' = "returned"
               /\ HasEvent(out', "updated")
               /\ \A raw \in IdInputs, ins \in UpdateInputs, c \in ConfirmInputs :
                     (Len(ins) = 5 /\ Confirmed(c) /\ UpdateEmployee(raw, ins, c))
                         => \E j \in 1..Len(employees) :
                               /\ employees[j].employee_id = Strip(raw)
                               /\ UpdatedAs(employees[j], employees'[j], ins)]_vars
    /\ [][(pc = "menu" /\ out'.op = "delete" /\ HasEvent(out', "save_fault"))
            => /\ pc' = "returned"
               /\ HasEvent(out', "deleted")
               /\ Len(employees') = Len(employees) - 1
               /\ \A raw \in IdInputs, c \in ConfirmInputs :
                     DeleteEmployee(raw, c) => Strip(raw) \notin IdsOf(employees')]_vars

\* an add has returned after a write fault and the file is not what a save of
\* the collection writes
C10_Witness ==
    /\ pc = "returned"
    /\ out.op = "add_contact"
    /\ HasEvent(out, "save_fault")
    /\ HasEvent(out, "added")
    /\ employees # <<>>
    /\ fileLines # FileContent(employees)

\* the position of the first event named ev among those of o, 0 when none
EventAt(o, ev) ==
    IF HasEvent(o, ev)
    THEN CHOOSE i \in 1..Len(o.events) :
            o.events[i].ev = ev /\ \A j \in 1..(i - 1) : o.events[j].ev # ev
    ELSE 0

\* the events of a notification, sent or failed
NotifyEvents == {"notify_sent", "notify_no_file", "notify_empty", "notify_smtp", "notify_error"}
NotifyFailures == NotifyEvents \ {"notify_sent"}

\* C11: in a step of add that attempts the notification, the record was
\* appended and the save ran before the attempt; whatever the notification
\* does, the collection is the old one with the new record at its end, the
\* budget counters aside nothing else of the store changes, and when the save
\* met no write fault the last line of the file is the line of the new record
C11_NotifyAfterCommit ==
    [][\A i \in 1..Len(out'.events) :
          (out'.op = "add_contact" /\ out'.events[i].ev \in NotifyEvents)
              => /\ 0 < EventAt(out', "append")
                 /\ EventAt(out', "append") < EventAt(out', "save")
                 /\ EventAt(out', "save") < i
                 /\ SubSeq(employees', 1, Len(employees)) = employees
                 /\ Len(employees') = Len(employees) + 1
                 /\ employees'[Len(employees')].employee_id = pending.employee_id
                 /\ employees'[Len(employees')].email = pending.email
                 /\ updates' = updates
                 /\ pc' = "returned"
                 /\ ~HasEvent(out', "save_fault")
                       => /\ fileExists'
                          /\ Len(fileLines') = Len(employees') + 1
                          /\ fileLines'[Len(fileLines')]
                               = RecordLine(employees'[Len(employees')])]_vars

\* an add whose notification failed on the SMTP side has returned: the record
\* is in the collection and in the file
C11_Witness ==
    /\ pc = "returned"
    /\ out.op = "add_contact"
    /\ HasEvent(out, "notify_smtp")
    /\ ~HasEvent(out, "save_fault")
    /\ employees # <<>>
    /\ employees[Len(employees)].employee_id = out.events[1].args[1]
    /\ fileLines[Len(fileLines)] = RecordLine(employees[Len(employees)])

(***************************************************************************)
(* The record functions on their own: the six validators, the constructor, *)
(* to_dict and from_dict, applied to one mapping of six field texts.       *)
(***************************************************************************)
\* at most this many fields of a mapping differ from the well-formed one
MaxDiffering == 2

\* texts of each field: well formed, padded, ill formed, empty, blank
IdTexts ==
    { <<"B", "1">>,
      <<" ", "B", "1">>,
      <<"B", "-", "1">>,
      <<>>,
      <<" ">> }

NameTexts ==
    { <<"A", "l">>,
      <<" ", "A", " ", "l", " ">>,
      <<"A", "1">>,
      <<>>,
      <<" ">> }

DepartmentTexts ==
    { <<"E", "n", "g">>,
      <<" ", "E", "-", "1", " ">>,
      <<"E", "!">>,
      <<>>,
      <<" ">> }

\* zero, fractions that round down and up, padded, negative, no number, a
\* sign alone, empty, blank, not-a-number
SalaryTexts ==
    { <<"5">>,
      <<"0">>,
      <<"5", ".", "0", "0", "4">>,
      <<"7", ".", "5", "0", "6">>,
      <<" ", "5", " ">>,
      <<"-", "1">>,
      <<"x">>,
      <<"+">>,
      <<"-">>,
      <<>>,
      <<" ">>,
      <<"n", "a", "n">> }

\* whitespace before and after, whitespace inside, no dot, nothing before "@"
EmailTexts ==
    { <<"a", "@", "b", ".", "c">>,
      <<" ", "a", "@", "b", ".", "c", " ">>,
      <<"a", " ", "@", "b", ".", "c">>,
      <<"a", "@", "b">>,
      <<"@", "b", ".", "c">>,
      <<>>,
      <<" ">> }

ContactTexts ==
    { <<"1">>,
      <<" ", "1", ",", "2", " ">>,
      <<>>,
      <<" ">> }

\* the six values in EMPLOYEE_KEYS order
WellFormedDict ==
    <<<<"B", "1">>, <<"A", "l">>, <<"E", "n", "g">>, <<"5">>, <<"a", "@", "b", ".", "c">>, <<"1">>>>

Dicts ==
    {d \in IdTexts \X NameTexts \X DepartmentTexts \X SalaryTexts \X EmailTexts \X ContactTexts :
        Cardinality({k \in 1..6 : d[k] # WellFormedDict[k]}) <= MaxDiffering}

InitRecord ==
    /\ pending \in Dicts
    /\ pc = "fields"
    /\ employees = <<>>
    /\ out = Out("none", <<>>)
    /\ fileExists = FALSE
    /\ fileLines = <<>>
    /\ faults = 0
    /\ updates = 0

\* the six validators, each on the text of its field
Validate ==
    /\ pc = "fields"
    /\ out' = Out("validate",
                  <<is_valid_employee_id_format(pending[1]),
                    is_valid_name_format(pending[2]),
                    is_valid_department_format(pending[3]),
                    is_valid_salary_format(pending[4]),
                    is_valid_email_format(pending[5]),
                    is_valid_contact_details_format(pending[6])>>)
    /\ pc' = "validated"
    /\ UNCHANGED <<fileExists, fileLines, employees, pending, faults, updates>>

\* the outcome r of a construction: the record if there is one
Constructed(op, r) ==
    /\ employees' = IF r.tag = "ok" THEN <<r.emp>> ELSE <<>>
    /\ out' = Out(op, <<[tag |-> r.tag, msg |-> r.msg]>>)
    /\ pc' = IF r.tag = "ok" THEN "built" ELSE "failed"
    /\ UNCHANGED <<fileExists, fileLines, pending, faults, updates>>

\* Employee(...) on the field texts and the salary as a float, as add_employee
\* calls it
NewEmployee ==
    /\ pc = "validated"
    /\ ParseFloat(pending[4]).ok
    /\ Constructed("new", Employee(pending[1], pending[2], pending[3],
                                   ParseFloat(pending[4]).val, pending[5], pending[6]))

\* Employee.from_dict on the mapping
FromDict ==
    /\ pc = "validated"
    /\ Constructed("from_dict", from_dict(pending))

\* to_dict of the record built
ToDict ==
    /\ pc = "built"
    /\ pending' = to_dict(employees[1])
    /\ out' = Out("to_dict", <<>>)
    /\ pc' = "dumped"
    /\ UNCHANGED <<fileExists, fileLines, employees, faults, updates>>

\* from_dict of what to_dict returned
FromDictAgain ==
    /\ pc = "dumped"
    /\ LET r == from_dict(pending)
       IN  /\ employees' = IF r.tag = "ok" THEN Append(employees, r.emp) ELSE employees
           /\ out' = Out("from_dict_again", <<[tag |-> r.tag, msg |-> r.msg]>>)
    /\ pc' = "reloaded"
    /\ UNCHANGED <<fileExists, fileLines, pending, faults, updates>>

NextRecord ==
    \/ Validate
    \/ NewEmployee
    \/ FromDict
    \/ ToDict
    \/ FromDictAgain

SpecRecord == InitRecord /\ [][NextRecord]_vars

(***************************************************************************)
(* Properties of the record functions.                                     *)
(***************************************************************************)
\* a record that satisfies the six field rules, with trimmed string fields
ValidRecord(e) ==
    /\ e.employee_id # <<>>
    /\ \A k \in 1..Len(e.employee_id) : e.employee_id[k] \in Letter \cup Digit
    /\ e.name # <<>> /\ Trimmed(e.name)
    /\ \A k \in 1..Len(e.name) : e.name[k] \in Letter \cup {" "}
    /\ e.department # <<>> /\ Trimmed(e.department)
    /\ \A k \in 1..Len(e.department) : e.department[k] \in Letter \cup Digit \cup {" ", "-"}
    /\ e.salary.k = "num"
    /\ e.salary.v >= 0
    /\ Trimmed(e.email)
    /\ \A k \in 1..Len(e.email) : e.email[k] \notin White
    /\ \E a \in 2..Len(e.email) : \E d \in (a + 2)..(Len(e.email) - 1) :
          e.email[a] = "@" /\ e.email[d] = "."
    /\ e.contact_details # <<>> /\ Trimmed(e.contact_details)

\* round(f, 2) of a float that is not negative
Round2(f) == IF f.k = "nan" THEN NaN ELSE Num(((f.v + 5) \div 10) * 10)

\* a == b on floats: nan equals nothing
FloatEq(a, b) == a.k = "num" /\ b.k = "num" /\ a.v = b.v

\* C12: for every valid record r, from_dict(to_dict(r)) succeeds and gives a
\* record with the id, name, department, email and contact of r and with a
\* salary equal to that of r once both are rounded to two decimals
C12_RoundTrip ==
    (pc = "reloaded" /\ ValidRecord(employees[1]))
        => /\ out.events[1].tag = "ok"
           /\ Len(employees) = 2
           /\ employees[2].employee_id = employees[1].employee_id
           /\ employees[2].name = employees[1].name
           /\ employees[2].department = employees[1].department
           /\ employees[2].email = employees[1].email
           /\ employees[2].contact_details = employees[1].contact_details
           /\ FloatEq(Round2(employees[2].salary), Round2(employees[1].salary))

\* a valid record with salary 5.004 has come back with salary 5.0
C12_Witness ==
    /\ pc = "reloaded"
    /\ ValidRecord(employees[1])
    /\ employees[1].salary = Num(5004)
    /\ Len(employees) = 2
    /\ employees[2].salary = Num(5000)

\* the fields of mapping d that fail their validator when the constructor is
\* given the salary of d as a float
FailingFields(d) ==
    {k \in 1..6 :
        \/ k = 1 /\ ~is_valid_employee_id_format(d[1]).ok
        \/ k = 2 /\ ~is_valid_name_format(d[2]).ok
        \/ k = 3 /\ ~is_valid_department_format(d[3]).ok
        \/ k = 4 /\ ~is_valid_salary_format(FloatStr(ParseFloat(d[4]).val)).ok
        \/ k = 5 /\ ~is_valid_email_format(d[5]).ok
        \/ k = 6 /\ ~is_valid_contact_details_format(d[6]).ok}

\* C13: from_dict on a mapping whose salary text is no number returns None
\* and raises nothing; on a mapping whose salary text is a number and one of
\* whose fields fails validation (a negative salary included) it raises the
\* validation error; in both cases no record is produced
C13_FromDictAsymmetry ==
    (pc \in {"built", "failed"} /\ out.op = "from_dict")
        => /\ ~ParseFloat(pending[4]).ok
                => /\ out.events[1].tag = "none"
                   /\ pc = "failed"
                   /\ employees = <<>>
           /\ (ParseFloat(pending[4]).ok /\ FailingFields(pending) # {})
                => /\ out.events[1].tag = "raise"
                   /\ out.events[1].msg # ""
                   /\ pc = "failed"
                   /\ employees = <<>>

\* from_dict has raised for the negative salary of an otherwise valid mapping
C13_Witness ==
    /\ pc = "failed"
    /\ out.op = "from_dict"
    /\ pending[4] = <<"-", "1">>
    /\ FailingFields(pending) = {4}
    /\ out.events[1].tag = "raise"
    /\ out.events[1].msg = "Salary cannot be negative."

(***************************************************************************)
(* The read-only operations on their own: list_all_employees,              *)
(* generate_department_report and _does_department_exist called on a       *)
(* system that holds a list of valid records with distinct ids.            *)
(***************************************************************************)
\* at most this many records are held
MaxRecords == 3

\* ids in an order that is neither numeric nor case-blind: A3 < B10 < B2 < b1
ViewIds ==
    { <<"B", "2">>,
      <<"B", "1", "0">>,
      <<"A", "3">>,
      <<"b", "1">> }

\* two spellings of one department, and another department
ViewDepartments ==
    { <<"E", "n", "g">>,
      <<"e", "n", "g">>,
      <<"O", "p", "s">> }

ViewRecords ==
    {[employee_id |-> id,
      name |-> IF Len(id) = 2 /\ id[1] = "B" THEN <<"B", "o">> ELSE <<"A", "l">>,
      department |-> d,
      salary |-> IF d = <<"O", "p", "s">> THEN Num(7500) ELSE Num(5000),
      email |-> <<"a", "@", "b", ".", "c">>,
      contact_details |-> <<"1">>] : id \in ViewIds, d \in ViewDepartments}

StoredLists ==
    {q \in SeqsUpTo(ViewRecords, MaxRecords) :
        \A i, j \in 1..Len(q) : q[i].employee_id = q[j].employee_id => i = j}

\* the name a department is looked up by: stored spelling, other case,
\* whitespace before or after, unknown, empty
LookupDepartments ==
    { <<"E", "n", "g">>,
      <<"E", "N", "G">>,
      <<" ", "e", "n", "g">>,
      <<"O", "p", "s", " ">>,
      <<"H", "r">>,
      <<>> }

InitViews ==
    /\ employees \in StoredLists
    /\ fileExists = TRUE
    /\ fileLines = FileContent(employees)
    /\ pc = "ready"
    /\ pending = EmptyPending
    /\ out = Out("none", <<>>)
    /\ faults = 0
    /\ updates = 0

\* a method called on the system returns having changed nothing; the listing
\* is also called a second time, after any of the three
Called(o) ==
    /\ pc \in {"ready", "called"}
    /\ out' = o
    /\ pc' = "called"
    /\ UNCHANGED <<fileExists, fileLines, employees, pending, faults, updates>>

CallListAllEmployees == Called(Out("list", list_all_employees(employees)))

CallGenerateDepartmentReport ==
    /\ pc = "ready"
    /\ Called(Out("report", generate_department_report(employees)))

CallDoesDepartmentExist(department_name) ==
    /\ pc = "ready"
    /\ Called(Out("department_exists",
                  <<Event(IF does_department_exist(employees, department_name)
                          THEN "true" ELSE "false",
                          <<department_name>>, 0)>>))

NextViews ==
    \/ CallListAllEmployees
    \/ CallGenerateDepartmentReport
    \/ \E department_name \in LookupDepartments : CallDoesDepartmentExist(department_name)

SpecViews == InitViews /\ [][NextViews]_vars

(***************************************************************************)
(* Properties of the read-only operations.                                 *)
(***************************************************************************)
\* the positions of the rows a listing or report printed
RowsOf(o) == {i \in 1..Len(o.events) : o.events[i].ev = "row"}

\* the section of a report that position i lies in: the number of department
\* headings printed up to i
SectionOf(o, i) == Cardinality({j \in 1..i : o.events[j].ev = "department"})

\* the position of the row of a report that shows the record with this id
RowOfId(o, id) == CHOOSE i \in RowsOf(o) : o.events[i].args[1] = id

\* C14: the department report partitions the collection by department,
\* compared case-insensitively and trimmed: every record is shown in exactly
\* one group, two records are in the same group iff their trimmed, lower-cased
\* departments are equal, the employee count printed for a group is the
\* number of its members, and the grand total is the number of records
C14_ReportPartition ==
    (pc = "called" /\ out.op = "report" /\ employees # <<>>)
        => /\ \A a \in 1..Len(employees) :
                Cardinality({i \in RowsOf(out) :
                                out.events[i].args[1] = employees[a].employee_id}) = 1
           /\ Cardinality(RowsOf(out)) = Len(employees)
           /\ \A a, b \in 1..Len(employees) :
                (SectionOf(out, RowOfId(out, employees[a].employee_id))
                    = SectionOf(out, RowOfId(out, employees[b].employee_id)))
                  <=> (Lower(Strip(employees[a].department))
                          = Lower(Strip(employees[b].department)))
           /\ \A i \in 1..Len(out.events) :
                out.events[i].ev = "dept_employees"
                    => out.events[i].n
                          = Cardinality({r \in RowsOf(out) :
                                            SectionOf(out, r) = SectionOf(out, i)})
           /\ out.events[Len(out.events)].ev = "report_total"
           /\ out.events[Len(out.events)].n = Len(employees)

\* a report of three records in two groups: Eng and eng together, Ops apart
C14_Witness ==
    /\ pc = "called"
    /\ out.op = "report"
    /\ Len(employees) = 3
    /\ employees[1].department = <<"E", "n", "g">>
    /\ employees[2].department = <<"O", "p", "s">>
    /\ employees[3].department = <<"e", "n", "g">>
    /\ SectionOf(out, Len(out.events)) = 2
    /\ SectionOf(out, RowOfId(out, employees[1].employee_id))
          = SectionOf(out, RowOfId(out, employees[3].employee_id))

\* C15: list_all_employees shows every record of the store exactly once, in
\* ascending order of id, and a second call made with no mutation in between
\* returns the sequence the first call returned
C15_ListSortedOnce ==
    (pc = "called" /\ out.op = "list" /\ employees # <<>>)
        => /\ Cardinality(RowsOf(out)) = Len(employees)
           /\ RowsOf(out) = 1..Len(employees)
           /\ \A a \in 1..Len(employees) :
                Cardinality({i \in RowsOf(out) :
                                out.events[i].args
                                    = <<employees[a].employee_id, employees[a].name,
                                        employees[a].department>>}) = 1
           /\ \A i, j \in RowsOf(out) :
                i < j => StrLess(out.events[i].args[1], out.events[j].args[1])
           /\ list_all_employees(employees) = out.events

\* three records stored as B2, B10, A3 have been listed as A3, B10, B2
C15_Witness ==
    /\ pc = "called"
    /\ out.op = "list"
    /\ IdSeq(employees) = <<<<"B", "2">>, <<"B", "1", "0">>, <<"A", "3">>>>
    /\ [i \in 1..3 |-> out.events[i].args[1]] = <<<<"A", "3">>, <<"B", "1", "0">>, <<"B", "2">>>>

\* C16 as stated: _does_department_exist(name) is true iff some record's
\* department equals name once both are trimmed and lower-cased, so a name
\* with leading or trailing whitespace around a stored department exists
C16_TrimmedCaseInsensitive ==
    (pc = "called" /\ out.op = "department_exists")
        => (out.events[1].ev = "true"
              <=> \E i \in 1..Len(employees) :
                     Lower(Strip(employees[i].department))
                        = Lower(Strip(out.events[1].args[1])))

\* C16: _does_department_exist(name) is true iff some record's department
\* equals name, as given and not trimmed, when both are lower-cased: a name
\* that differs from a stored department only by letter case exists, a name
\* with leading or trailing whitespace does not
C16_CaseInsensitiveOnly ==
    (pc = "called" /\ out.op = "department_exists")
        => /\ out.events[1].ev = "true"
                <=> \E i \in 1..Len(employees) :
                       Lower(employees[i].department) = Lower(out.events[1].args[1])
           /\ ~Trimmed(out.events[1].args[1]) => out.events[1].ev = "false"

\* ENG has been found in a store whose only spelling of it is Eng
C16_Witness ==
    /\ pc = "called"
    /\ out.op = "department_exists"
    /\ out.events[1].args[1] = <<"E", "N", "G">>
    /\ out.events[1].ev = "true"
    /\ employees # <<>>
    /\ \A i \in 1..Len(employees) : employees[i].department \in {<<"E", "n", "g">>, <<"O", "p", "s">>}

\* the rule of each field, on the text given to its validator
IdRule(t) == t # <<>> /\ \A k \in 1..Len(t) : t[k] \in Letter \cup Digit

NameRule(t) ==
    Strip(t) # <<>> /\ \A k \in 1..Len(Strip(t)) : Strip(t)[k] \in Letter \cup {" "}

DepartmentRule(t) ==
    Strip(t) # <<>>
        /\ \A k \in 1..Len(Strip(t)) : Strip(t)[k] \in Letter \cup Digit \cup {" ", "-"}

\* a decimal numeral: an optional sign, then digits with at most one point
DecimalText(t) ==
    LET body == IF t # <<>> /\ t[1] \in {"+", "-"} THEN Tail(t) ELSE t
    IN  /\ \A k \in 1..Len(body) : body[k] \in Digit \cup {"."}
        /\ Cardinality({k \in 1..Len(body) : body[k] = "."}) <= 1
        /\ \E k \in 1..Len(body) : body[k] \in Digit

\* a number that is not negative
SalaryRule(t) ==
    /\ Strip(t) # <<>>
    /\ DecimalText(Strip(t))
    /\ ~(Strip(t)[1] = "-" /\ \E k \in 1..Len(Strip(t)) : Strip(t)[k] \in Digit \ {"0"})

EmailRule(t) ==
    /\ \A k \in 1..Len(Strip(t)) : Strip(t)[k] \notin White
    /\ \E a \in 2..Len(Strip(t)) : \E d \in (a + 2)..(Len(Strip(t)) - 1) :
          Strip(t)[a] = "@" /\ Strip(t)[d] = "."

ContactRule(t) == Strip(t) # <<>>

FieldRule(k, t) ==
    CASE k = 1 -> IdRule(t)
      [] k = 2 -> NameRule(t)
      [] k = 3 -> DepartmentRule(t)
      [] k = 4 -> SalaryRule(t)
      [] k = 5 -> EmailRule(t)
      [] k = 6 -> ContactRule(t)

\* C17: each of the six validators passes exactly the texts that satisfy the
\* rule of its field and fails every other text with a reason; empty and
\* blank texts fail for every field, the salary 0 passes, a negative salary
\* fails and a sign alone fails (violated: the salary validator passes "nan")
C17_ValidatorsExact ==
    pc = "validated"
        => \A k \in 1..6 :
              /\ out.events[k].ok <=> FieldRule(k, pending[k])
              /\ out.events[k].ok => out.events[k].msg = ""
              /\ ~out.events[k].ok => out.events[k].msg # ""
              /\ Strip(pending[k]) = <<>> => ~out.events[k].ok

\* the whole text is <non-space>+ @ <non-space>+ . <non-space>+
WholeMatch(t) ==
    /\ \A k \in 1..Len(t) : t[k] \notin White
    /\ \E a \in 2..Len(t) : \E d \in (a + 2)..(Len(t) - 1) : t[a] = "@" /\ t[d] = "."

FieldCheck(k, d) ==
    CASE k = 1 -> is_valid_employee_id_format(d[1])
      [] k = 2 -> is_valid_name_format(d[2])
      [] k = 3 -> is_valid_department_format(d[3])
      [] k = 4 -> is_valid_salary_format(FloatStr(ParseFloat(d[4]).val))
      [] k = 5 -> is_valid_email_format(d[5])
      [] k = 6 -> is_valid_contact_details_format(d[6])

\* the first of a non-empty set of field positions
FirstOf(S) == CHOOSE k \in S : \A j \in S : k <= j

\* C19: the constructor runs the validators in the order id, name, department,
\* salary, email, contact; when some validator fails it raises the message of
\* the first that fails and produces no record, otherwise it produces one
C19_FirstFailureWins ==
    (pc \in {"built", "failed"} /\ out.op = "new")
        => IF FailingFields(pending) = {}
           THEN /\ pc = "built"
                /\ out.events[1].tag = "ok"
                /\ Len(employees) = 1
           ELSE /\ pc = "failed"
                /\ out.events[1].tag = "raise"
                /\ out.events[1].msg
                      = FieldCheck(FirstOf(FailingFields(pending)), pending).msg
                /\ employees = <<>>

\* the constructor has raised for a negative salary although the email is
\* ill formed as well
C19_Witness ==
    /\ pc = "failed"
    /\ out.op = "new"
    /\ FailingFields(pending) = {4, 5}
    /\ out.events[1].tag = "raise"
    /\ out.events[1].msg = "Salary cannot be negative."
    /\ employees = <<>>

(***************************************************************************)
(* Properties of delete.                                                   *)
(***************************************************************************)
\* an answer that reads yes or y, whatever its case and padding
Affirmative(c) == Lower(Strip(c)) \in {<<"y", "e", "s">>, <<"y">>}

\* C20: a record leaves the collection only in a step of delete that was
\* given its id and an affirmative answer (yes or y); a delete that is
\* declined, names an unknown id or is given an invalid id leaves the
\* collection and the backing file as they were and does not save
C20_DeleteOnlyConfirmed ==
    [][/\ (IdsOf(employees) \ IdsOf(employees') # {} \/ Len(employees') < Len(employees))
            => /\ pc = "menu"
               /\ out'.op = "delete"
               /\ HasEvent(out', "deleted")
               /\ IdsOf(employees) \ IdsOf(employees')
                     = {out'.events[Len(out'.events)].args[1]}
               /\ Len(employees') = Len(employees) - 1
               /\ \A raw \in IdInputs, c \in ConfirmInputs :
                     DeleteEmployee(raw, c)
                        => /\ Affirmative(c)
                           /\ IdsOf(employees) \ IdsOf(employees') = {Strip(raw)}
       /\ (pc = "menu" /\ out'.op = "delete")
            => \A raw \in IdInputs, c \in ConfirmInputs :
                  (/\ DeleteEmployee(raw, c)
                   /\ \/ ~Affirmative(c)
                      \/ Strip(raw) \notin IdsOf(employees)
                      \/ ~IdRule(Strip(raw)))
                     => /\ employees' = employees
                        /\ fileExists' = fileExists
                        /\ fileLines' = fileLines
                        /\ faults' = faults
                        /\ ~HasEvent(out', "save")
                        /\ ~HasEvent(out', "deleted")]_vars

\* a delete of a stored id has been declined and both records are still held
C20_Witness ==
    /\ pc = "returned"
    /\ out.op = "delete"
    /\ HasEvent(out, "cancelled")
    /\ Len(employees) = 2
    /\ fileLines = FileContent(employees)

(***************************************************************************)
(* Properties of update, of the menu loop and of the session as a whole.   *)
(***************************************************************************)
\* the step leaves the collection and the backing file as they were and
\* does not save
StoreUntouched ==
    /\ employees' = employees
    /\ fileExists' = fileExists
    /\ fileLines' = fileLines
    /\ faults' = faults
    /\ updates' = updates
    /\ ~HasEvent(out', "save")

\* C21: an update that does not commit leaves the store untouched: when an
\* input fails its validator, when every input is empty, when the id is
\* invalid or unknown, or when the confirmation is declined, no field of any
\* record changes, the fields accepted before the failing one included, and
\* nothing is saved; a step of update that commits was given a stored id,
\* five inputs each empty or valid, one of them not empty, and yes or y
C21_UncommittedUpdate ==
    [][(pc = "menu" /\ out'.op = "update")
          => IF ~HasEvent(out', "updated") THEN StoreUntouched
             ELSE \E raw \in IdInputs, ins \in UpdateInputs, c \in ConfirmInputs :
                     /\ IdRule(Strip(raw))
                     /\ Strip(raw) \in IdsOf(employees)
                     /\ Len(ins) = 5
                     /\ \A k \in 1..5 :
                           Strip(ins[k]) = <<>> \/ UpdateCheck(k, Strip(ins[k])).ok
                     /\ \E k \in 1..5 : Strip(ins[k]) # <<>>
                     /\ Affirmative(c)
                     /\ UpdateEmployee(raw, ins, c)]_vars

\* an update has been aborted at its second prompt, after a new name was
\* accepted, and the record still has its name
C21_Witness ==
    /\ pc = "returned"
    /\ out.op = "update"
    /\ HasEvent(out, "aborted")
    /\ out.events[1].n = 2
    /\ employees # <<>>
    /\ \A i \in 1..Len(employees) : employees[i].name # <<"C", "y">>
    /\ fileLines = FileContent(employees)

\* the number of events named ev among those of the step that produced o
CountEvents(o, ev) == Cardinality({i \in 1..Len(o.events) : o.events[i].ev = ev})

\* C22: choosing Exit at the menu saves the in-memory collection once and
\* leaves the loop, after which no operation runs; an invalid choice changes
\* neither the collection nor the file and the loop goes back to the menu
C22_ExitAndInvalidChoice ==
    [][/\ (pc = "menu" /\ out'.op = "exit")
            => /\ CountEvents(out', "save") = 1
               /\ employees' = employees
               /\ pc' = "exited"
               /\ ~HasEvent(out', "save_fault")
                     => fileExists' /\ fileLines' = FileContent(employees)
       /\ pc = "exited" => UNCHANGED vars
       /\ (pc = "menu" /\ out'.op = "invalid_choice")
            => /\ employees' = employees
               /\ fileExists' = fileExists
               /\ fileLines' = fileLines
               /\ ~HasEvent(out', "save")
               /\ pc' = "returned"
       /\ (pc = "returned" /\ out.op = "invalid_choice")
            => /\ pc' = "menu"
               /\ employees' = employees
               /\ fileExists' = fileExists
               /\ fileLines' = fileLines]_vars

\* Exit has saved a collection of two records and the loop has ended
C22_Witness ==
    /\ pc = "exited"
    /\ out.op = "exit"
    /\ CountEvents(out, "save") = 1
    /\ ~HasEvent(out, "save_fault")
    /\ Len(employees) = 2
    /\ fileLines = FileContent(employees)

\* what a step prints when an operation met an error
ErrorEvents ==
    {"invalid", "not_found", "exists", "aborted", "error", "load_error", "save_fault",
     "skip_malformed", "skip_none", "skip_invalid", "skip_duplicate"}
        \cup NotifyFailures

\* the loop of run() is over
Ended(p) == p \in {"exited", "crashed"}

\* C23: no error inside an operation ends the session: a step that met a
\* validation failure, an unknown id, a read or write fault, a notification
\* fault or an unexpected exception leaves the loop running, and after a
\* handler has returned the loop shows the menu again; the loop ends only by
\* Exit or by end of input (violated: Ctrl-C at the menu prompt ends it)
C23_OnlyExitOrEndOfInput ==
    [][/\ (~Ended(pc) /\ out'.op \notin {"exit", "eof", "uncaught"}
              /\ (out'.op = "unexpected" \/ \E i \in 1..Len(out'.events) :
                                               out'.events[i].ev \in ErrorEvents))
            => ~Ended(pc')
       /\ pc = "returned" => pc' = "menu"
       /\ (~Ended(pc) /\ Ended(pc'))
            => \/ out'.op = "exit"
               \/ out'.op = "eof"
               \/ out'.op = "uncaught" /\ HasEvent(out', "eof")]_vars

(***************************************************************************)
(* Persist and reload: _save_employees called on a stored list, then a     *)
(* new EmployeeManagementSystem constructed on the file it wrote.          *)
(***************************************************************************)
StoreIds ==
    { <<"B", "1">>,
      <<"B", "2">>,
      <<"B", "3">> }

\* what differs between stored records: plain, a salary with a third decimal,
\* a salary that is NaN, the delimiter in the email, the delimiter in the
\* contact details
StoreKinds == {"plain", "third_decimal", "nan", "email_delim", "contact_delim"}

StoreRecord(id, kind) ==
    [employee_id |-> id,
     name |-> <<"A", "l">>,
     department |-> <<"E", "n", "g">>,
     salary |-> IF kind = "third_decimal" THEN Num(5004)
                ELSE IF kind = "nan" THEN NaN ELSE Num(5000),
     email |-> IF kind = "email_delim" THEN <<"a", ",", "b", "@", "c", ".", "d">>
               ELSE <<"a", "@", "b", ".", "c">>,
     contact_details |-> IF kind = "contact_delim" THEN <<"1", ",", "2">> ELSE <<"1">>]

StoreRecords == {StoreRecord(id, kind) : id \in StoreIds, kind \in StoreKinds}

\* the lists _employees_list may hold: at most MaxDataLines records, no id twice
StoreLists ==
    {q \in SeqsUpTo(StoreRecords, MaxDataLines) :
        \A i, j \in 1..Len(q) : q[i].employee_id = q[j].employee_id => i = j}

\* the file before the save: absent, or a header and one older line
StoreFiles ==
    {[exists |-> FALSE, lines |-> <<>>],
     [exists |-> TRUE, lines |-> <<HeaderLine, <<"B", "1", ",", "B", "o", ",", "E", "n", "g", ",", "5", ",", "a", "@", "b", ".", "c", ",", "1">>>>]}

InitStore ==
    /\ employees \in StoreLists
    /\ \E f \in StoreFiles : fileExists = f.exists /\ fileLines = f.lines
    /\ pc = "ready"
    /\ pending = EmptyPending
    /\ out = Out("none", <<>>)
    /\ faults = 0
    /\ updates = 0

\* _save_employees called on the system; the next system is then constructed
CallSaveEmployees ==
    /\ pc = "ready"
    /\ \E wf \in WriteFaults(employees) :
          /\ Persist(employees, wf)
          /\ out' = Out("save", SaveEvents(wf))
    /\ pc' = "start"
    /\ UNCHANGED <<employees, pending, updates>>

NextStore ==
    \/ CallSaveEmployees
    \/ \E rf \in ReadFaults(fileLines) : Construct(rf)

SpecStore == InitStore /\ [][NextStore]_vars

HasDelimiter(text) == \E k \in 1..Len(text) : text[k] = DELIMITER

DelimiterFree(e) == ~HasDelimiter(e.email) /\ ~HasDelimiter(e.contact_details)

\* the records of emps without the delimiter in a field, salaries rounded to
\* two decimals
Reproduced(emps) ==
    LET kept == SelectSeq(emps, DelimiterFree)
    IN  [i \in 1..Len(kept) |-> [kept[i] EXCEPT !.salary = Round2(@)]]

\* C24: when a list is saved without a write fault and the written file is
\* loaded without a read fault, the loaded list holds, in the same order, the
\* records without the delimiter in a field, each with its salary rounded to
\* two decimals and written as the same line; and every record with the
\* delimiter in its email or contact is skipped as a malformed line and is
\* not in the loaded list
C24_SaveThenLoad ==
    [][(/\ pc = "start" /\ out.op = "save" /\ ~HasEvent(out, "save_fault")
        /\ out'.op = "load"
        /\ ~HasEvent(out', "load_error") /\ ~HasEvent(out', "no_data_file"))
          => /\ employees' = Reproduced(employees)
             /\ FileContent(employees') = FileContent(SelectSeq(employees, DelimiterFree))
             /\ \A i \in 1..Len(employees) :
                   ~DelimiterFree(employees[i])
                      => /\ \E j \in 1..Len(out'.events) :
                               /\ out'.events[j].ev = "skip_malformed"
                               /\ out'.events[j].n = i + 1
                         /\ \A j \in 1..Len(employees') :
                               employees'[j].employee_id # employees[i].employee_id]_vars

\* a file of two records written without a fault has been loaded: the line of
\* B1, whose contact holds the delimiter, was skipped as malformed, and B2
\* alone is back, with salary 5.0
C24_Witness ==
    /\ pc = "menu" /\ out.op = "load" /\ faults = 0
    /\ Len(fileLines) = 3
    /\ fileLines[2] = <<"B", "1", ",", "A", "l", ",", "E", "n", "g", ",", "5", ".", "0", "0", ",", "a", "@", "b", ".", "c", ",", "1", ",", "2">>
    /\ HasEvent(out, "skip_malformed")
    /\ employees = <<StoreRecord(<<"B", "2">>, "plain")>>

\* the first event ev of o
EventOf(o, ev) == o.events[CHOOSE i \in 1..Len(o.events) : o.events[i].ev = ev]

NotifyCalls(o) == {i \in 1..Len(o.events) : o.events[i].ev \in NotifyEvents}

\* C26: a step that reports a record as added calls _send_confirmation_email
\* exactly once, with the id, the email and the name of the record now last in
\* the collection, which is one longer than before; a step that reports no
\* record as added (a rejected input of add, an update, a delete, a view, a
\* listing, a report, the load, Exit and every other step) never calls it
C26_NotifyOncePerAdd ==
    [][IF HasEvent(out', "added")
       THEN /\ out'.op = "add_contact"
            /\ Cardinality(NotifyCalls(out')) = 1
            /\ Len(employees') = Len(employees) + 1
            /\ \A i \in NotifyCalls(out') :
                  out'.events[i].args
                      = <<employees'[Len(employees')].employee_id,
                          employees'[Len(employees')].email,
                          employees'[Len(employees')].name>>
       ELSE NotifyCalls(out') = {}]_vars

\* B2 has been added to a collection that held B1 and its confirmation was
\* sent to a@b.c in the name of Al
C26_Witness ==
    /\ pc = "returned"
    /\ out.op = "add_contact"
    /\ HasEvent(out, "added")
    /\ HasEvent(out, "notify_sent")
    /\ EventOf(out, "notify_sent").args
          = << <<"B", "2">>, <<"a", "@", "b", ".", "c">>, <<"A", "l">> >>
    /\ IdSeq(employees) = << <<"B", "1">>, <<"B", "2">> >>

\* the line is among the lines of the records of emps as a save writes them
WrittenFor(emps, line) == \E j \in 1..Len(emps) : line = RecordLine(emps[j])

\* C27: the load leaves the backing file as it found it, and so does every
\* step that does not save; a save that meets no write fault leaves the file
\* holding the header and the lines of the records of the collection and
\* nothing else, so that no data line of the old file that is not the line of
\* a held record remains; in particular, when the save comes with the first
\* operation after the load, the lines the load reported as skipped, and after
\* a read fault every data line of the file, are not in the file any more
C27_FileFromMemoryOnly ==
    [][/\ pc = "start" => (fileExists' = fileExists /\ fileLines' = fileLines)
       /\ ~HasEvent(out', "save") => (fileExists' = fileExists /\ fileLines' = fileLines)
       /\ (HasEvent(out', "save") /\ ~HasEvent(out', "save_fault"))
             => /\ fileExists'
                /\ fileLines' = FileContent(employees')
                /\ \A k \in 2..Len(fileLines) :
                      WrittenFor(employees', fileLines[k])
                         \/ \A j \in 1..Len(fileLines') : fileLines'[j] # fileLines[k]
                /\ (pc = "menu" /\ out.op = "load")
                      => /\ \A i \in 1..Len(out.events) :
                               out.events[i].ev \in SkipEvents
                                  => \A j \in 1..Len(fileLines') :
                                        fileLines'[j] # fileLines[out.events[i].n]
                         /\ HasEvent(out, "load_error")
                               => fileLines' = <<HeaderLine>>]_vars

\* a file of three data lines has been loaded with two of them skipped, one
\* for its salary and one as a duplicate: the file still holds all three, and
\* the one record of the collection is all that the next save writes
C27_Witness ==
    /\ pc = "menu" /\ out.op = "load"
    /\ HasEvent(out, "skip_none") /\ HasEvent(out, "skip_duplicate")
    /\ fileExists /\ Len(fileLines) = 4
    /\ Len(employees) = 1
    /\ Len(FileContent(employees)) = 2
    /\ \A k \in 2..4 : fileLines[k] # FileContent(employees)[2]

\* C28: when the save of an add meets a write fault, add still appends the
\* record, prints the fault, then reports the record as added, then calls the
\* notification once, and returns; the collection is the old one with the new
\* record at its end, while the save has written no line for it: the file is
\* as it was before (open() failed) or holds only leading lines of the content,
\* not reaching the line of the new record, so that a file that did not hold
\* the line of the record before does not hold it afterwards
C28_AddCompletesOnWriteFault ==
    [][(out'.op = "add_contact" /\ HasEvent(out', "save_fault"))
          => /\ HasEvent(out', "added")
             /\ EventAt(out', "append") < EventAt(out', "save_fault")
             /\ EventAt(out', "save_fault") < EventAt(out', "added")
             /\ Cardinality(NotifyCalls(out')) = 1
             /\ \A i \in NotifyCalls(out') : EventAt(out', "added") < i
             /\ pc' = "returned"
             /\ Len(employees') = Len(employees) + 1
             /\ SubSeq(employees', 1, Len(employees)) = employees
             /\ employees'[Len(employees')].employee_id = EventOf(out', "added").args[1]
             /\ \/ fileExists' = fileExists /\ fileLines' = fileLines
                \/ /\ fileExists'
                   /\ Len(fileLines') <= Len(employees')
                   /\ fileLines' = SubSeq(FileContent(employees'), 1, Len(fileLines'))
             /\ (\A j \in 1..Len(fileLines) :
                    fileLines[j] # RecordLine(employees'[Len(employees')]))
                   => \A j \in 1..Len(fileLines') :
                         fileLines'[j] # RecordLine(employees'[Len(employees')])]_vars

\* B2 was added behind B1 while the save failed after the header was written:
\* add reported success and the confirmation was sent, the collection holds
\* both records and the file holds the header alone
C28_Witness ==
    /\ pc = "returned"
    /\ out.op = "add_contact"
    /\ HasEvent(out, "save_fault")
    /\ HasEvent(out, "added")
    /\ HasEvent(out, "notify_sent")
    /\ IdSeq(employees) = << <<"B", "1">>, <<"B", "2">> >>
    /\ fileExists
    /\ fileLines = <<HeaderLine>>

====
